---- MODULE Spec2Model ----
(***************************************************************************)
(* Citation normalisation and persistence pipeline of anum-papers-db:      *)
(* citation_parser.py (parse_citation, lookup_doi_metadata, the two        *)
(* create_entry_from_* bridges), db.py (Database) and the batch loops of   *)
(* app.py.                                                                 *)
(*                                                                         *)
(* Text is a sequence of one-character strings.  Python None is the value  *)
(* None for text and NoneInt for numbers; "" is the empty sequence.        *)
(***************************************************************************)
EXTENDS Integers, Sequences, FiniteSets, TLC

\* ------------------------------------------------------------------ text

\* Python None in a text-valued field.
None == <<"<None>">>

\* Python None in an integer-valued field.
NoneInt == -1

\* Python truthiness of an Optional[str]: None and "" are falsy.
Truthy(s) == s # None /\ s # <<>>

\* Python truthiness of an Optional[int]: None and 0 are falsy.
TruthyInt(n) == n # NoneInt /\ n # 0

\* "x or y" on optional text / optional integers.
Or(x, y) == IF Truthy(x) THEN x ELSE y
OrInt(x, y) == IF TruthyInt(x) THEN x ELSE y

\* The absent result (Python None where a dict is expected).
NoDict == [absent |-> TRUE]

\* d.get(k) on a parsed dict, for text, integer and list values.
Get(d, k) == IF k \in DOMAIN d THEN d[k] ELSE None
GetInt(d, k) == IF k \in DOMAIN d THEN d[k] ELSE NoneInt
GetList(d, k) == IF k \in DOMAIN d THEN d[k] ELSE <<>>

\* The characters text is built from: ASCII letters in both cases, one
\* non-ASCII letter in both cases ("E'" upper, "e'" lower), punctuation,
\* a space and a tab.
AsciiCase ==
    {<<"A", "a">>, <<"B", "b">>, <<"D", "d">>, <<"J", "j">>, <<"K", "k">>,
     <<"M", "m">>, <<"N", "n">>, <<"O", "o">>, <<"S", "s">>}
UnicodeCase == AsciiCase \cup {<<"E'", "e'">>}

\* One character through a case table: the lower-case partner if it has one.
FoldChar(c, table) ==
    IF \E p \in table : p[1] = c THEN (CHOOSE p \in table : p[1] = c)[2] ELSE c

\* str.lower() on one character: Unicode-aware.
PyLowerChar(c) == FoldChar(c, UnicodeCase)

\* SQLite LOWER() on one character: the built-in folds ASCII only.
SqlLowerChar(c) == FoldChar(c, AsciiCase)

\* str.strip() removes every whitespace character.
PyWhitespace == {" ", "\t"}

\* SQLite TRIM(X) removes spaces only.
SqlWhitespace == {" "}

RECURSIVE LStrip(_, _)
LStrip(s, ws) ==
    IF s # <<>> /\ Head(s) \in ws THEN LStrip(Tail(s), ws) ELSE s

RECURSIVE RStrip(_, _)
RStrip(s, ws) ==
    IF s # <<>> /\ s[Len(s)] \in ws THEN RStrip(SubSeq(s, 1, Len(s) - 1), ws) ELSE s

Strip(s, ws) == RStrip(LStrip(s, ws), ws)

PyLower(s) == [i \in 1..Len(s) |-> PyLowerChar(s[i])]
SqlLower(s) == [i \in 1..Len(s) |-> SqlLowerChar(s[i])]

\* entry.title.lower().strip()
PyTitleKey(t) == Strip(PyLower(t), PyWhitespace)

\* LOWER(TRIM(title)); NULL stays NULL and compares equal to nothing.
SqlTitleKey(t) == IF t = None THEN None ELSE SqlLower(Strip(t, SqlWhitespace))

SetMin(S) == CHOOSE x \in S : \A y \in S : x <= y
SetMax(S) == CHOOSE x \in S : \A y \in S : x >= y


\* ------------------------------------------------------------- models.py

\* An Entry class that also declares project_area.
EntryFieldsWithProjectArea ==
    {"id", "type", "title", "year", "venue", "volume", "issue", "pages", "doi",
     "abstract_number", "date", "location", "status", "abstract", "url",
     "keywords", "subject_area", "citation_count", "anum_position",
     "created_at", "updated_at", "project_area"}

\* The attributes a models.Entry object has (the dataclass fields).
EntryFields ==
    {"id", "type", "title", "year", "venue", "volume", "issue", "pages", "doi",
     "abstract_number", "date", "location", "status", "abstract", "url",
     "keywords", "subject_area", "citation_count", "anum_position",
     "created_at", "updated_at"}

\* The attributes of which the model keeps a value (the two timestamps hold
\* datetime.now() and are compared by nothing).
TextFields ==
    {"title", "venue", "volume", "issue", "pages", "doi", "abstract_number",
     "date", "location", "status", "abstract", "url", "keywords", "subject_area"}
IntFields == {"id", "year", "citation_count", "anum_position"}

\* Entry(...) with every keyword argument left at its default.
EntryDefaults ==
    [f \in TextFields \cup IntFields \cup {"type"} |->
        IF f = "type" THEN "" ELSE IF f = "title" THEN <<>>
        ELSE IF f \in IntFields THEN NoneInt ELSE None]

\* Entry(**kw): the defaults overridden by the keyword arguments given.
Entry(kw) == [f \in DOMAIN EntryDefaults |-> IF f \in DOMAIN kw THEN kw[f] ELSE EntryDefaults[f]]

\* ------------------------------------------- citation_parser.py: names

\* ANUM_NAMES
ANUM_NAMES ==
    { <<"K","a","z","e","r","o","u","n","i",","," ","A","."," ","S",".">>,
      <<"K","a","z","e","r","o","u","n","i",","," ","A",".","S",".">>,
      <<"S","y","e","d",","," ","A","."," ","K",".">>,
      <<"S","y","e","d",","," ","A",".","K",".">>,
      <<"S","y","e","d"," ","A","."," ","K",".">>,
      <<"S","y","e","d"," ","A",".","K",".">> }

\* re.sub(r'\*+', '', name)
RECURSIVE RemoveStars(_)
RemoveStars(s) ==
    IF s = <<>> THEN <<>>
    ELSE IF Head(s) = "*" THEN RemoveStars(Tail(s))
    ELSE <<Head(s)>> \o RemoveStars(Tail(s))

\* re.sub(r'\s+', ' ', name): every run of whitespace becomes one space.
RECURSIVE CollapseSpace(_)
CollapseSpace(s) ==
    IF s = <<>> THEN <<>>
    ELSE IF Head(s) \in PyWhitespace
    THEN <<" ">> \o CollapseSpace(LStrip(Tail(s), PyWhitespace))
    ELSE <<Head(s)>> \o CollapseSpace(Tail(s))

\* A normalisation that leaves runs of whitespace as they are.
normalize_without_collapse(name) == Strip(RemoveStars(name), PyWhitespace)

normalize_author_name(name) == CollapseSpace(Strip(RemoveStars(name), PyWhitespace))

is_anum_author(name) ==
    \E anum_name \in ANUM_NAMES :
        PyLower(normalize_author_name(anum_name)) = PyLower(normalize_author_name(name))

\* Author(name=..., is_anum=...)
Author(name, is_anum) == [name |-> name, is_anum |-> is_anum]

\* ------------------------------------------------------------------ db.py

\* No exception was raised.
NoExc == "none"

\* The columns of a row of table entries that the model keeps.
EntryColumns == TextFields \cup IntFields \cup {"type", "project_area"}

\* The attributes of the Entry object that the INSERT of create_entry reads.
InsertAttrs == (EntryFields \ {"id"}) \cup {"project_area"}

\* The attributes of the Entry object that the UPDATE of update_entry reads.
UpdateAttrs == (EntryFields \ {"created_at"}) \cup {"project_area"}

\* Reading entry.<f> for every f in attrs raises AttributeError when the
\* object has no such attribute.
ReadsRaise(attrs) == ~(attrs \subseteq EntryFields)

\* The value bound to column c from the Entry object.
ColumnValue(entry, c) == IF c \in DOMAIN entry THEN entry[c] ELSE None

\* cursor.lastrowid of an INSERT into a rowid table.
LastRowId(rows) == IF rows = {} THEN 1 ELSE SetMax({r.id : r \in rows}) + 1

\* rows[0]['id'] / fetchone()['id']: the table is scanned in rowid order.
FirstId(rows) == SetMin({r.id : r \in rows})

\* Strategy 1 of check_duplicate: SELECT id FROM entries WHERE doi = ?
RowsByDoi(db, entry) == {r \in db.entries : r.doi # None /\ r.doi = entry.doi}

\* Strategy 2: WHERE LOWER(TRIM(title)) = ? AND year = ?
RowsByTitleYear(db, entry) ==
    {r \in db.entries : /\ r.title # None
                        /\ SqlTitleKey(r.title) = PyTitleKey(entry.title)
                        /\ r.year # NoneInt
                        /\ r.year = entry.year}

\* Strategy 3: WHERE LOWER(TRIM(title)) = ?
RowsByTitle(db, entry) ==
    {r \in db.entries : /\ r.title # None
                        /\ SqlTitleKey(r.title) = PyTitleKey(entry.title)}

\* Database.check_duplicate: the id found, or NoneInt.
check_duplicate(db, entry) ==
    IF Truthy(entry.doi) /\ RowsByDoi(db, entry) # {}
    THEN FirstId(RowsByDoi(db, entry))
    ELSE IF Truthy(entry.title) /\ TruthyInt(entry.year) /\ RowsByTitleYear(db, entry) # {}
    THEN FirstId(RowsByTitleYear(db, entry))
    ELSE IF Truthy(entry.title) /\ RowsByTitle(db, entry) # {}
    THEN FirstId(RowsByTitle(db, entry))
    ELSE NoneInt

\* A create_entry that reports the work the duplicate check found as new.
create_entry_reports_new(db, entry) ==
    LET existing_id == check_duplicate(db, entry)
    IN  IF TruthyInt(existing_id)
        THEN [db |-> db, ret |-> <<existing_id, TRUE>>, exc |-> NoExc]
        ELSE [db |-> db, ret |-> <<NoneInt, FALSE>>, exc |-> "AttributeError"]

\* The INSERT and commit of Database.create_entry, once the duplicate check
\* has found nothing: [db, ret = <<entry_id, is_new>>, exc].
InsertEntry(db, entry) ==
    LET new_id == LastRowId(db.entries)
        row == [c \in EntryColumns |-> IF c = "id" THEN new_id ELSE ColumnValue(entry, c)]
    IN  IF ReadsRaise(InsertAttrs)
        THEN [db |-> db, ret |-> <<NoneInt, FALSE>>, exc |-> "AttributeError"]
        ELSE [db |-> [db EXCEPT !.entries = @ \cup {row}],
              ret |-> <<new_id, TRUE>>, exc |-> NoExc]

\* Database.create_entry: [db, ret = <<entry_id, is_new>>, exc].
create_entry(db, entry) ==
    LET existing_id == check_duplicate(db, entry)
    IN  IF TruthyInt(existing_id)
        THEN [db |-> db, ret |-> <<existing_id, FALSE>>, exc |-> NoExc]
        ELSE InsertEntry(db, entry)

\* Database.update_entry: [db, ret = rowcount > 0, exc].
update_entry(db, entry) ==
    LET hit == {r \in db.entries : r.id = entry.id}
        new(r) == [c \in EntryColumns |-> IF c = "id" THEN r.id ELSE ColumnValue(entry, c)]
    IN  IF entry.id = NoneInt
        THEN [db |-> db, ret |-> FALSE, exc |-> NoExc]
        ELSE IF ReadsRaise(UpdateAttrs)
        THEN [db |-> db, ret |-> FALSE, exc |-> "AttributeError"]
        ELSE [db |-> [db EXCEPT !.entries = (@ \ hit) \cup {new(r) : r \in hit}],
              ret |-> hit # {}, exc |-> NoExc]

\* Database.delete_entry: [db, ret = rowcount > 0].  Database.connect opens
\* the connection without "PRAGMA foreign_keys = ON", and SQLite enforces no
\* foreign key on such a connection: the DELETE removes the row of entries
\* and nothing else.
delete_entry(db, entry_id) ==
    [db |-> [db EXCEPT !.entries = {r \in @ : r.id # entry_id}],
     ret |-> \E r \in db.entries : r.id = entry_id]

\* A create_author without its "SELECT id FROM authors WHERE name = ?".
create_author_always_inserts(db, author) ==
    [db |-> [db EXCEPT !.authors = @ \cup
                {[id |-> LastRowId(db.authors), name |-> author.name,
                  is_anum |-> author.is_anum]}],
     ret |-> LastRowId(db.authors)]

\* Database.create_author: [db, ret = author id].  name = ? is an exact,
\* case-sensitive comparison.
create_author(db, author) ==
    LET found == {a \in db.authors : a.name = author.name}
        new_id == LastRowId(db.authors)
    IN  IF found # {}
        THEN [db |-> db, ret |-> FirstId(found)]
        ELSE [db |-> [db EXCEPT !.authors = @ \cup
                        {[id |-> new_id, name |-> author.name, is_anum |-> author.is_anum]}],
              ret |-> new_id]

\* The rows of entry_authors that conflict with a new row under the table's
\* uniqueness constraint: one link per (work, author) pair.
LinkConflicts(links, ea) ==
    {l \in links : l.entry_id = ea.entry_id /\ l.author_id = ea.author_id}

\* Database.add_entry_author: INSERT OR REPLACE deletes the conflicting rows.
add_entry_author(db, ea) ==
    [db EXCEPT !.entry_authors = (@ \ LinkConflicts(@, ea)) \cup {ea}]

\* EntryAuthor(entry_id, author_id, position, is_first_author): is_corresponding
\* keeps its default False.
EntryAuthor(entry_id, author_id, position, is_first_author) ==
    [entry_id |-> entry_id, author_id |-> author_id, position |-> position,
     is_first_author |-> is_first_author, is_corresponding |-> FALSE]

\* ------------------------------ citation_parser.py: lookup_doi_metadata

\* A retry budget of three attempts instead of two.
max_retries_three == 2 + 1

\* max_retries and the first timeout_seconds of lookup_doi_metadata.
max_retries == 2
timeout_seconds == 30

\* s.startswith(prefix) and s[len(prefix):], on token sequences.
StartsWith(s, prefix) == Len(s) >= Len(prefix) /\ SubSeq(s, 1, Len(prefix)) = prefix
DropPrefix(s, prefix) == SubSeq(s, Len(prefix) + 1, Len(s))

\* The "Clean DOI" block of lookup_doi_metadata.
CleanLookupDoi(doi) ==
    LET d0 == Strip(doi, PyWhitespace)
        d1 == IF StartsWith(d0, <<"doi:">>)
              THEN Strip(DropPrefix(d0, <<"doi:">>), PyWhitespace) ELSE d0
        d2 == IF StartsWith(d1, <<"https://doi.org/">>)
              THEN Strip(DropPrefix(d1, <<"https://doi.org/">>), PyWhitespace) ELSE d1
        d3 == IF StartsWith(d2, <<"http://dx.doi.org/">>)
              THEN Strip(DropPrefix(d2, <<"http://dx.doi.org/">>), PyWhitespace) ELSE d2
    IN  d3

\* One attempt of the retry loop and the attempts after it.  script[k] is
\* what the k-th call of cr.works does:
\*   [kind |-> "ok", msg |-> m]          a non-empty message
\*   [kind |-> "empty"]                  no result / empty message
\*   [kind |-> "redirect", to |-> d]     raises; str(e) has 301 and /works/d
\*   [kind |-> "redirect_bare"]          raises; str(e) has 301, no /works/
\*   [kind |-> "timeout"]                raises; str(e) has timeout
\*   [kind |-> "error"]                  raises anything else
\* log is the sequence of calls made so far, each [doi, timeout].
\* Result: [msg (NoDict when None), doi_clean, log].
RECURSIVE RetryLoop(_, _, _, _, _)
RetryLoop(attempt, doi_clean, timeout, script, log) ==
    IF attempt >= max_retries
    THEN [msg |-> NoDict, doi_clean |-> doi_clean, log |-> log]
    ELSE
        LET out == script[Len(log) + 1]
            log2 == Append(log, [doi |-> doi_clean, timeout |-> timeout])
            stop == [msg |-> NoDict, doi_clean |-> doi_clean, log |-> log2]
        IN  CASE out.kind = "ok" ->
                    [msg |-> out.msg, doi_clean |-> doi_clean, log |-> log2]
              [] out.kind = "empty" -> stop
              [] out.kind = "redirect" /\ out.to # doi_clean ->
                    RetryLoop(attempt + 1, out.to, timeout, script, log2)
              [] out.kind = "timeout" /\ attempt < max_retries - 1 ->
                    RetryLoop(attempt + 1, doi_clean, timeout * 2, script, log2)
              [] OTHER -> stop

\* A result dict that keeps the identifier the caller passed out of the record.
LookupResultNoDoi(msg, doi_clean) ==
    [k \in DOMAIN msg \cup {"doi"} |-> IF k = "doi" THEN None ELSE msg[k]]

\* The dict built from the message (title, authors, venue, year, volume,
\* issue, pages, abstract, url, keywords, subject_area, citation_count) with
\* 'doi' set to the cleaned identifier.
LookupResult(msg, doi_clean) ==
    [k \in DOMAIN msg \cup {"doi"} |-> IF k = "doi" THEN doi_clean ELSE msg[k]]

\* lookup_doi_metadata(doi) once HABANERO_AVAILABLE is known:
\* [result (NoDict when None), log].
lookup_doi_metadata(available, doi, script) ==
    IF ~available THEN [result |-> NoDict, log |-> <<>>]
    ELSE
        LET r == RetryLoop(0, CleanLookupDoi(doi), timeout_seconds, script, <<>>)
        IN  [result |-> IF r.msg = NoDict THEN NoDict ELSE LookupResult(r.msg, r.doi_clean),
             log |-> r.log]

\* ----------------------------------- citation_parser.py: parse_citation

\* A citation string is kept as what the parser reads off it:
\*   len_ok   the stripped text is non-empty and has at least 20 characters
\*   kw       the keywords that occur in citation_text.lower()
\*   doi      extract_doi(citation_text)
\*   fb       parse_citation_fallback(citation_text), NoDict when None
\*   titles   the titles that occur in the text (title in citation_text)
\*   star     '*' occurs in the text before the title
\*   section  the strings that occur in the text before the title
\*   marked   the family names the text follows with an asterisk
\* The providers' behaviour is env:
\*   grobid    what parse_with_grobid returns (NoDict when None)
\*   openalex  the first work the search returns (NoDict when none)
\*   crossref  for each identifier, the script of its registry calls

\* d.update(kv)
Upd(d, kv) == [k \in DOMAIN d \cup DOMAIN kv |-> IF k \in DOMAIN kv THEN kv[k] ELSE d[k]]

\* The URL prefixes matched by https?://(?:dx\.)?doi\.org/
DoiUrlPrefixes ==
    {<<"https://doi.org/">>, <<"http://doi.org/">>,
     <<"https://dx.doi.org/">>, <<"http://dx.doi.org/">>}

\* extract_doi_from_url(url)
extract_doi_from_url(url) ==
    IF ~Truthy(url) THEN None
    ELSE IF \E pre \in DoiUrlPrefixes : StartsWith(url, pre) /\ Len(url) > Len(pre)
    THEN Strip(DropPrefix(url, CHOOSE pre \in DoiUrlPrefixes : StartsWith(url, pre)),
               PyWhitespace)
    ELSE None

MeetingWords == {"meeting", "symposium", "conference", "workshop", "retreat", "annual"}

\* determine_entry_type with the meeting branch testing 'poster'/'abstract'
\* before 'oral'/'presentation'.
determine_entry_type_poster_first(kw, default_type) ==
    IF default_type \in {"oral_presentation", "poster_abstract"}
    THEN IF default_type = "oral_presentation" /\ ({"poster", "abstract"} \cap kw # {})
         THEN "poster_abstract"
         ELSE IF default_type = "poster_abstract" /\ ({"oral", "presentation"} \cap kw # {})
         THEN "oral_presentation"
         ELSE default_type
    ELSE IF MeetingWords \cap kw # {}
    THEN IF {"poster", "abstract"} \cap kw # {} THEN "poster_abstract"
         ELSE "oral_presentation"
    ELSE IF "patent" \in kw THEN "patent"
    ELSE IF "chapter" \in kw THEN "book_chapter"
    ELSE default_type

\* determine_entry_type(citation_lower), the closure of parse_citation.
determine_entry_type(kw, default_type) ==
    IF default_type \in {"oral_presentation", "poster_abstract"}
    THEN IF default_type = "oral_presentation" /\ ({"poster", "abstract"} \cap kw # {})
         THEN "poster_abstract"
         ELSE IF default_type = "poster_abstract" /\ ({"oral", "presentation"} \cap kw # {})
         THEN "oral_presentation"
         ELSE default_type
    ELSE IF MeetingWords \cap kw # {}
    THEN IF {"oral", "presentation"} \cap kw # {} THEN "oral_presentation"
         ELSE IF {"poster", "abstract"} \cap kw # {} THEN "poster_abstract"
         ELSE "oral_presentation"
    ELSE IF "patent" \in kw THEN "patent"
    ELSE IF "chapter" \in kw THEN "book_chapter"
    ELSE default_type

\* The entry type computed inline by strategy 4.
FallbackEntryType(kw, default_type) ==
    IF default_type \in {"oral_presentation", "poster_abstract"}
    THEN IF default_type = "oral_presentation" /\ ({"poster", "abstract"} \cap kw # {})
         THEN "poster_abstract"
         ELSE IF default_type = "poster_abstract" /\ ({"oral", "presentation"} \cap kw # {})
         THEN "oral_presentation"
         ELSE default_type
    ELSE IF MeetingWords \cap kw # {}
    THEN IF {"oral", "presentation"} \cap kw # {} THEN "oral_presentation"
         ELSE IF {"poster", "abstract"} \cap kw # {} THEN "poster_abstract"
         ELSE "oral_presentation"
    ELSE IF "patent" \in kw THEN "patent"
    ELSE IF "chapter" \in kw \/ "book" \in kw THEN "book_chapter"
    ELSE default_type

\* re.search(r'(pending|granted|issued)', citation_lower): the leftmost word
\* is not kept apart here, the first of the three present is taken.
PatentStatus(kw) ==
    IF "pending" \in kw THEN <<"pending">>
    ELSE IF "granted" \in kw THEN <<"granted">>
    ELSE IF "issued" \in kw THEN <<"issued">>
    ELSE None

\* author.split(',')[0]
RECURSIVE BeforeComma(_)
BeforeComma(s) ==
    IF s = <<>> \/ Head(s) = "," THEN <<>> ELSE <<Head(s)>> \o BeforeComma(Tail(s))

\* s in author_section; the empty string occurs in every string.
InSection(cit, title, s) == title # <<>> /\ title \in cit.titles /\ (s = <<>> \/ s \in cit.section)

\* extract_first_author_positions(authors, citation_text, title): [ret, exc].
\* "title in citation_text" raises TypeError when title is None.
extract_first_author_positions(authors, cit, title) ==
    IF authors = <<>> THEN [ret |-> <<>>, exc |-> NoExc]
    ELSE IF title = None THEN [ret |-> <<>>, exc |-> "TypeError"]
    ELSE
        LET star == title # <<>> /\ title \in cit.titles /\ cit.star
            marked == {i \in 1..Len(authors) :
                          star /\ InSection(cit, title, BeforeComma(authors[i]))}
            sorted == [i \in 1..Cardinality(marked) |->
                          CHOOSE m \in marked : Cardinality({n \in marked : n < m}) = i - 1]
        IN  [ret |-> IF marked # {} THEN sorted ELSE <<1>>, exc |-> NoExc]

\* The script of the registry calls for one identifier.
ScriptFor(env, doi) ==
    IF doi \in DOMAIN env.crossref THEN env.crossref[doi]
    ELSE [k \in 1..max_retries |-> [kind |-> "empty"]]

\* lookup_doi_metadata(doi) against env: the dict, NoDict when None.
Crossref(flags, env, doi) == lookup_doi_metadata(flags.habanero, doi, ScriptFor(env, doi)).result

\* lookup_openalex(citation_text, title, authors, year): the dict built from
\* the first search result, NoDict when None.  An exception raised while the
\* work is read is swallowed and gives None.
lookup_openalex(flags, env, title, authors) ==
    IF ~flags.openalex THEN NoDict
    ELSE IF ~(Truthy(title) /\ Len(Strip(title, PyWhitespace)) > 10) THEN NoDict
    ELSE IF env.openalex = NoDict THEN NoDict
    ELSE
        LET work == env.openalex
            work_authors == GetList(work, "authors")
        IN  [title |-> IF "title" \in DOMAIN work THEN work.title ELSE title,
             authors |-> IF work_authors # <<>> THEN work_authors ELSE authors,
             venue |-> Get(work, "venue"),
             year |-> GetInt(work, "year"),
             doi |-> IF Truthy(Get(work, "doi"))
                     THEN (IF StartsWith(work.doi, <<"https://doi.org/">>)
                           THEN DropPrefix(work.doi, <<"https://doi.org/">>) ELSE work.doi)
                     ELSE None,
             url |-> Get(work, "url"),
             citation_count |-> GetInt(work, "citation_count"),
             abstract |-> Get(work, "abstract"),
             keywords |-> IF "keywords" \in DOMAIN work THEN work.keywords ELSE <<>>]

\* The five enrichment fields as metadata.update({...}) sets them from a
\* registry result: the registry's value, else the one already there.
CrossrefMerge(metadata, crossref_metadata) ==
    Upd(metadata,
        [abstract |-> Or(Get(crossref_metadata, "abstract"), Get(metadata, "abstract")),
         url |-> Or(Get(crossref_metadata, "url"), Get(metadata, "url")),
         keywords |-> Or(Get(crossref_metadata, "keywords"), Get(metadata, "keywords")),
         subject_area |-> Or(Get(crossref_metadata, "subject_area"),
                             Get(metadata, "subject_area")),
         citation_count |-> OrInt(GetInt(crossref_metadata, "citation_count"),
                                  GetInt(metadata, "citation_count"))])

\* The dict a strategy returns, from the merged metadata.
ResultDict(entry_type, metadata, doi, authors, first_author_indices) ==
    [type |-> entry_type,
     title |-> metadata.title,
     year |-> GetInt(metadata, "year"),
     venue |-> Get(metadata, "venue"),
     volume |-> Get(metadata, "volume"),
     issue |-> Get(metadata, "issue"),
     pages |-> Get(metadata, "pages"),
     doi |-> doi,
     abstract |-> Get(metadata, "abstract"),
     url |-> Get(metadata, "url"),
     keywords |-> Get(metadata, "keywords"),
     subject_area |-> Get(metadata, "subject_area"),
     citation_count |-> GetInt(metadata, "citation_count"),
     authors |-> authors,
     first_author_positions |-> first_author_indices]

\* Each strategy gives [done, ret, exc, path]: done is FALSE when the strategy
\* falls through to the next one.
FallThrough == [done |-> FALSE, ret |-> NoDict, exc |-> NoExc, path |-> 0]
Returned(ret, path) == [done |-> TRUE, ret |-> ret, exc |-> NoExc, path |-> path]
Raised(exc, path) == [done |-> TRUE, ret |-> NoDict, exc |-> exc, path |-> path]

\* "if crossref_metadata: metadata.update({...})"
MergeIfFound(metadata, crossref_metadata) ==
    IF crossref_metadata # NoDict THEN CrossrefMerge(metadata, crossref_metadata)
    ELSE metadata

\* Strategy 1, the identifier: GROBID's, else the one in the text, else the
\* one in GROBID's URL.
S1Doi(metadata, cit) ==
    LET doi == Or(Get(metadata, "doi"), cit.doi)
    IN  IF ~Truthy(doi) /\ Truthy(Get(metadata, "url"))
        THEN extract_doi_from_url(Get(metadata, "url")) ELSE doi

\* Strategy 1, the Crossref merge once crossref_metadata is known, and the
\* identifier taken from Crossref's URL when metadata has none.
S1CrossrefMerge(metadata, crossref_metadata) ==
    LET merged == MergeIfFound(metadata, crossref_metadata)
    IN  IF crossref_metadata # NoDict /\ Truthy(Get(crossref_metadata, "url"))
           /\ ~Truthy(Get(merged, "doi"))
           /\ Truthy(extract_doi_from_url(Get(crossref_metadata, "url")))
        THEN Upd(merged, [doi |-> extract_doi_from_url(Get(crossref_metadata, "url"))])
        ELSE merged

\* Strategy 1, "if doi and HABANERO_AVAILABLE": the extracted identifier is
\* stored and Crossref is asked.
S1Crossref(flags, env, metadata, doi) ==
    IF Truthy(doi) /\ flags.habanero
    THEN S1CrossrefMerge(IF ~Truthy(Get(metadata, "doi")) THEN Upd(metadata, [doi |-> doi])
                         ELSE metadata,
                         Crossref(flags, env, doi))
    ELSE metadata

\* Strategy 1, the OpenAlex lookup by GROBID's title.
S1OpenAlex(flags, env, metadata) ==
    IF flags.openalex /\ Truthy(Get(metadata, "title"))
    THEN lookup_openalex(flags, env, metadata.title, GetList(metadata, "authors"))
    ELSE NoDict

\* Strategy 1, "if not doi and openalex_doi and HABANERO_AVAILABLE": a second
\* Crossref lookup with the identifier OpenAlex found.
S1SecondCrossref(flags, env, metadata, doi, oa) ==
    LET openalex_doi == IF oa = NoDict THEN None
                        ELSE IF ~Truthy(oa.doi) /\ Truthy(oa.url)
                        THEN extract_doi_from_url(oa.url) ELSE oa.doi
    IN  IF oa # NoDict /\ ~Truthy(doi) /\ Truthy(openalex_doi) /\ flags.habanero
        THEN MergeIfFound(Upd(metadata, [doi |-> openalex_doi]),
                          Crossref(flags, env, openalex_doi))
        ELSE metadata

\* Strategy 1, "Merge OpenAlex data (only fill in missing fields)".
S1OpenAlexMerge(metadata, oa) ==
    IF oa = NoDict THEN metadata
    ELSE Upd(metadata,
             [abstract |-> IF ~Truthy(Get(metadata, "abstract")) /\ Truthy(oa.abstract)
                           THEN oa.abstract ELSE Get(metadata, "abstract"),
              url |-> IF ~Truthy(Get(metadata, "url")) /\ Truthy(oa.url)
                      THEN oa.url ELSE Get(metadata, "url"),
              keywords |-> IF ~Truthy(Get(metadata, "keywords")) /\ Truthy(oa.keywords)
                           THEN oa.keywords ELSE Get(metadata, "keywords"),
              citation_count |->
                  IF ~TruthyInt(GetInt(metadata, "citation_count"))
                     /\ TruthyInt(oa.citation_count)
                  THEN oa.citation_count ELSE GetInt(metadata, "citation_count")])

\* Strategy 1, the returned dict; the first-author positions come from
\* GROBID's own authors and title.
S1Return(cit, default_type, grobid, metadata) ==
    LET fa == extract_first_author_positions(GetList(grobid, "authors"), cit, grobid.title)
    IN  IF fa.exc # NoExc THEN Raised(fa.exc, 1)
        ELSE Returned(ResultDict(determine_entry_type(cit.kw, default_type), metadata,
                                 Get(metadata, "doi"), GetList(metadata, "authors"),
                                 fa.ret), 1)

\* Strategy 1 from the OpenAlex lookup on, and from the Crossref lookup on.
S1AfterOpenAlex(flags, cit, default_type, env, doi, metadata, oa) ==
    S1Return(cit, default_type, env.grobid,
             S1OpenAlexMerge(S1SecondCrossref(flags, env, metadata, doi, oa), oa))
S1AfterCrossref(flags, cit, default_type, env, doi, metadata) ==
    S1AfterOpenAlex(flags, cit, default_type, env, doi, metadata,
                    S1OpenAlex(flags, env, metadata))

\* Strategy 1: GROBID, enriched by Crossref and OpenAlex.
Strategy1(flags, cit, default_type, env) ==
    IF ~flags.grobid THEN FallThrough
    ELSE IF env.grobid = NoDict \/ ~Truthy(Get(env.grobid, "title")) THEN FallThrough
    ELSE S1AfterCrossref(flags, cit, default_type, env, S1Doi(env.grobid, cit),
                         S1Crossref(flags, env, env.grobid, S1Doi(env.grobid, cit)))

\* Strategy 2, once the lookup has answered.
S2Return(cit, default_type, doi, metadata) ==
    IF metadata = NoDict \/ ~Truthy(Get(metadata, "title")) THEN FallThrough
    ELSE
        LET fa == extract_first_author_positions(GetList(metadata, "authors"), cit,
                                                 metadata.title)
        IN  IF fa.exc # NoExc THEN Raised(fa.exc, 2)
            ELSE Returned(ResultDict(determine_entry_type(cit.kw, default_type), metadata,
                                     doi, GetList(metadata, "authors"), fa.ret), 2)

\* Strategy 2: the identifier found in the text, looked up in Crossref.
Strategy2(flags, cit, default_type, env) ==
    IF Truthy(cit.doi) /\ flags.habanero
    THEN S2Return(cit, default_type, cit.doi, Crossref(flags, env, cit.doi))
    ELSE FallThrough

\* Strategy 3, the identifier: OpenAlex's, the regex parser's, the one in the
\* text, the one in OpenAlex's URL, the one in the regex parser's URL.
S3Doi(cit, oa) ==
    LET doi0 == Or(Or(oa.doi, Get(cit.fb, "doi")), cit.doi)
        doi1 == IF ~Truthy(doi0) /\ Truthy(oa.url) THEN extract_doi_from_url(oa.url)
                ELSE doi0
    IN  IF ~Truthy(doi1) /\ Truthy(Get(cit.fb, "url"))
        THEN extract_doi_from_url(Get(cit.fb, "url")) ELSE doi1

\* Strategy 3, the returned dict once Crossref has answered (cr is NoDict
\* when it was not asked or found nothing).
S3Return(cit, default_type, oa, doi, cr) ==
    LET fallback_parsed == cit.fb
        authors == IF oa.authors # <<>> THEN oa.authors
                   ELSE GetList(fallback_parsed, "authors")
        fa == extract_first_author_positions(authors, cit, oa.title)
        url_doi == IF cr # NoDict /\ Truthy(Get(cr, "url"))
                   THEN extract_doi_from_url(Get(cr, "url")) ELSE None
        merged ==
            [title |-> oa.title,
             year |-> OrInt(oa.year, GetInt(fallback_parsed, "year")),
             venue |-> Or(oa.venue, Get(fallback_parsed, "venue")),
             volume |-> Get(fallback_parsed, "volume"),
             issue |-> Get(fallback_parsed, "issue"),
             pages |-> Or(Get(oa, "pages"), Get(fallback_parsed, "pages")),
             abstract |-> Or(Get(cr, "abstract"), oa.abstract),
             url |-> Or(Get(cr, "url"), oa.url),
             keywords |-> Or(Get(cr, "keywords"), oa.keywords),
             subject_area |-> Get(cr, "subject_area"),
             citation_count |-> OrInt(GetInt(cr, "citation_count"), oa.citation_count)]
    IN  IF fa.exc # NoExc THEN Raised(fa.exc, 3)
        ELSE Returned(ResultDict(determine_entry_type(cit.kw, default_type), merged,
                                 IF Truthy(url_doi) /\ url_doi # doi THEN url_doi ELSE doi,
                                 authors, fa.ret), 3)

\* Strategy 3, once OpenAlex has answered.
S3AfterOpenAlex(flags, cit, default_type, env, oa, doi) ==
    S3Return(cit, default_type, oa, doi,
             IF Truthy(doi) /\ flags.habanero THEN Crossref(flags, env, doi) ELSE NoDict)
S3Merge(flags, cit, default_type, env, oa) ==
    IF oa = NoDict THEN FallThrough
    ELSE S3AfterOpenAlex(flags, cit, default_type, env, oa, S3Doi(cit, oa))

\* Strategy 3: the regex parser's skeleton, searched in OpenAlex.
Strategy3(flags, cit, default_type, env) ==
    IF flags.openalex /\ cit.fb # NoDict /\ Truthy(Get(cit.fb, "title"))
    THEN S3Merge(flags, cit, default_type, env,
                 lookup_openalex(flags, env, cit.fb.title, GetList(cit.fb, "authors")))
    ELSE FallThrough

\* Strategy 4, the returned dict once Crossref has answered.
S4Return(parsed, doi, cr) ==
    LET merged == IF cr # NoDict THEN CrossrefMerge(Upd(parsed, [doi |-> doi]), cr)
                  ELSE parsed
        url_doi == IF cr # NoDict /\ Truthy(Get(cr, "url"))
                   THEN extract_doi_from_url(Get(cr, "url")) ELSE None
    IN  Returned(IF Truthy(url_doi) THEN Upd(merged, [doi |-> url_doi]) ELSE merged, 4)

\* Strategy 4, the identifier: the regex parser's, the one in the text, the
\* one in the regex parser's URL.
S4Doi(parsed, cit) ==
    LET doi == Or(Get(parsed, "doi"), cit.doi)
    IN  IF ~Truthy(doi) /\ Truthy(Get(parsed, "url"))
        THEN extract_doi_from_url(Get(parsed, "url")) ELSE doi

\* Strategy 4, once parsed carries its type and status.
S4Crossref(flags, env, parsed, doi) ==
    S4Return(parsed, doi,
             IF Truthy(doi) /\ flags.habanero THEN Crossref(flags, env, doi) ELSE NoDict)
S4Typed(flags, cit, env, parsed) == S4Crossref(flags, env, parsed, S4Doi(parsed, cit))

\* Strategy 4: the regex parser alone, enriched by Crossref.
Strategy4(flags, cit, default_type, env) ==
    IF cit.fb = NoDict THEN FallThrough
    ELSE S4Typed(flags, cit, env,
                 Upd(cit.fb,
                     [type |-> FallbackEntryType(cit.kw, default_type),
                      status |-> IF default_type \notin {"oral_presentation",
                                                         "poster_abstract"}
                                    /\ MeetingWords \cap cit.kw = {} /\ "patent" \in cit.kw
                                 THEN PatentStatus(cit.kw) ELSE Get(cit.fb, "status")]))

\* The first strategy that returned or raised, in the order tried.
FirstDone(s1, s2, s3, s4) ==
    IF s1.done THEN s1
    ELSE IF s2.done THEN s2
    ELSE IF s3.done THEN s3
    ELSE IF s4.done THEN s4
    ELSE Returned(NoDict, 0)

\* parse_citation(citation_text, default_type): [done, ret, exc, path].
\* ret is NoDict when the function returns None; path is the strategy that
\* returned or raised (0 when none did).
parse_citation(flags, cit, default_type, env) ==
    IF ~cit.len_ok THEN Returned(NoDict, 0)
    ELSE FirstDone(Strategy1(flags, cit, default_type, env),
                   Strategy2(flags, cit, default_type, env),
                   Strategy3(flags, cit, default_type, env),
                   Strategy4(flags, cit, default_type, env))

\* ------------------------------------- citation_parser.py: persistence

\* Entry(type=parsed['type'], title=parsed['title'], year=parsed.get('year'), ...)
\* as both bridges build it.
EntryFromParsed(parsed) ==
    [f \in DOMAIN EntryDefaults |->
        IF f = "type" THEN parsed.type
        ELSE IF f = "title" THEN parsed.title
        ELSE IF f \in {"id", "anum_position"} THEN NoneInt
        ELSE IF f \in IntFields THEN GetInt(parsed, f)
        ELSE Get(parsed, f)]

\* The loop "for pos, author_name in enumerate(authors, 1)" of the two bridges,
\* from position pos on: [db, anum_position].  normalized says whether the
\* stored name is normalize_author_name(author_name) (CSL bridge) or the name
\* as parsed (citation bridge); first_positions is empty for the CSL bridge.
RECURSIVE LinkAuthors(_, _, _, _, _, _, _)
LinkAuthors(db, entry_id, authors, pos, first_positions, anum_position, normalized) ==
    IF pos > Len(authors) THEN [db |-> db, anum_position |-> anum_position]
    ELSE
        LET author_name == authors[pos]
        IN  IF ~Truthy(author_name) \/ Len(author_name) < 3
            THEN LinkAuthors(db, entry_id, authors, pos + 1, first_positions,
                             anum_position, normalized)
            ELSE
                LET is_anum == is_anum_author(author_name)
                    anum2 == IF is_anum /\ anum_position = NoneInt THEN pos ELSE anum_position
                    stored == IF normalized THEN normalize_author_name(author_name)
                              ELSE author_name
                    ca == create_author(db, Author(stored, is_anum))
                    db2 == add_entry_author(ca.db,
                               EntryAuthor(entry_id, ca.ret, pos, pos \in first_positions))
                IN  LinkAuthors(db2, entry_id, authors, pos + 1, first_positions,
                                anum2, normalized)

\* The end of a bridge: "if anum_position: ... db.update_entry(entry)" has run.
AfterUpdate(db, entry_id, ue) ==
    IF ue.exc # NoExc THEN [db |-> db, ret |-> <<NoneInt, FALSE>>, exc |-> ue.exc]
    ELSE [db |-> ue.db, ret |-> <<entry_id, TRUE>>, exc |-> NoExc]

\* A bridge once the author loop has run.  The CSL bridge sets entry.id before
\* it calls update_entry; the citation bridge leaves it None.
AfterLinks(entry, entry_id, la, csl) ==
    IF ~TruthyInt(la.anum_position)
    THEN [db |-> la.db, ret |-> <<entry_id, TRUE>>, exc |-> NoExc]
    ELSE AfterUpdate(la.db, entry_id,
                     update_entry(la.db,
                                  [entry EXCEPT !.id = IF csl THEN entry_id ELSE NoneInt,
                                                !.anum_position = la.anum_position]))

\* A bridge once db.create_entry(entry) has returned or raised.
AfterCreate(parsed, entry, ce, csl) ==
    IF ce.exc # NoExc THEN [db |-> ce.db, ret |-> <<NoneInt, FALSE>>, exc |-> ce.exc]
    ELSE IF ~ce.ret[2] THEN [db |-> ce.db, ret |-> <<ce.ret[1], FALSE>>, exc |-> NoExc]
    ELSE AfterLinks(entry, ce.ret[1],
                    LinkAuthors(ce.db, ce.ret[1], GetList(parsed, "authors"), 1,
                                IF csl THEN {}
                                ELSE {GetList(parsed, "first_author_positions")[i] :
                                        i \in 1..Len(GetList(parsed, "first_author_positions"))},
                                NoneInt, csl),
                    csl)

\* create_entry_from_citation after parse_citation returned parsed:
\* [db, ret = <<entry_id, is_new>>, exc].
PersistCitation(db, parsed) ==
    IF parsed = NoDict THEN [db |-> db, ret |-> <<NoneInt, FALSE>>, exc |-> NoExc]
    ELSE AfterCreate(parsed, EntryFromParsed(parsed),
                     create_entry(db, EntryFromParsed(parsed)), FALSE)

\* create_entry_from_csl_json after parse_csl_json_item returned parsed.
PersistCsl(db, parsed) ==
    IF parsed = NoDict THEN [db |-> db, ret |-> <<NoneInt, FALSE>>, exc |-> NoExc]
    ELSE AfterCreate(parsed, EntryFromParsed(parsed),
                     create_entry(db, EntryFromParsed(parsed)), TRUE)

\* ------------------------------------- citation_parser.py: CSL JSON items

\* A CSL item is a record with the JSON keys it has; its values are text,
\* integers, a list of author dicts, or a date dict.  A note is kept as the
\* digits that (?:abstract|poster)[\s#:]*(\d+) finds in it, None when none.
Has(item, k) == k \in DOMAIN item

\* item.get(k, '') and item.get(k) on a text-valued key.
ItemText(item, k) == IF Has(item, k) THEN item[k] ELSE <<>>
ItemGet(item, k) == IF Has(item, k) THEN item[k] ELSE None

\* The author loop: "family, given", or family alone; no family, no author.
RECURSIVE CslAuthors(_)
CslAuthors(list) ==
    IF list = <<>> THEN <<>>
    ELSE
        LET author == Head(list)
            family == ItemText(author, "family")
            given == ItemText(author, "given")
        IN  (IF Truthy(family)
             THEN <<IF Truthy(given) THEN family \o <<",", " ">> \o given ELSE family>>
             ELSE <<>>) \o CslAuthors(Tail(list))

\* str.lower() on the CSL type names in play.
CslTypeLower(t) ==
    CASE t = "Chapter" -> "chapter"
      [] t = "PATENT" -> "patent"
      [] t = "Poster" -> "poster"
      [] OTHER -> t

\* A type table without the row of posters.
entry_type_map_without_poster(csl_type) ==
    CASE csl_type = "article" -> "publication"
      [] csl_type = "article-journal" -> "publication"
      [] csl_type = "paper-conference" -> "oral_presentation"
      [] csl_type = "presentation" -> "oral_presentation"
      [] csl_type = "chapter" -> "book_chapter"
      [] csl_type = "patent" -> "patent"
      [] csl_type = "book" -> "publication"
      [] OTHER -> "publication"

\* entry_type_map.get(csl_type, 'publication')
entry_type_map(csl_type) ==
    CASE csl_type = "article" -> "publication"
      [] csl_type = "article-journal" -> "publication"
      [] csl_type = "paper-conference" -> "oral_presentation"
      [] csl_type = "poster" -> "poster_abstract"
      [] csl_type = "presentation" -> "oral_presentation"
      [] csl_type = "chapter" -> "book_chapter"
      [] csl_type = "patent" -> "patent"
      [] csl_type = "book" -> "publication"
      [] OTHER -> "publication"

\* d.get('date-parts', []) of a date dict.
DateParts(d) == IF "date-parts" \in DOMAIN d THEN d["date-parts"] ELSE <<>>

\* The "Extract year" block.
CslYear(item) ==
    IF Has(item, "issued") /\ DOMAIN item["issued"] # {}
    THEN LET date_parts == DateParts(item["issued"])
         IN  IF date_parts # <<>> /\ Len(date_parts[1]) > 0 THEN date_parts[1][1]
             ELSE NoneInt
    ELSE IF Has(item, "year") THEN item["year"]
    ELSE NoneInt

\* doi.replace(p, '') for a prefix token p.
RECURSIVE RemoveToken(_, _)
RemoveToken(s, p) ==
    IF s = <<>> THEN <<>>
    ELSE IF Head(s) = p THEN RemoveToken(Tail(s), p)
    ELSE <<Head(s)>> \o RemoveToken(Tail(s), p)

\* The "Extract DOI" and "Clean DOI" blocks.
CslDoi(item) ==
    LET doi == IF Has(item, "DOI") THEN item["DOI"]
               ELSE IF Has(item, "doi") THEN item["doi"] ELSE None
        cleaned == Strip(RemoveToken(RemoveToken(RemoveToken(doi, "https://doi.org/"),
                                                 "http://dx.doi.org/"), "doi:"),
                         PyWhitespace)
    IN  IF ~Truthy(doi) THEN doi
        ELSE IF cleaned = <<>> THEN None ELSE cleaned

month_names ==
    <<"January", "February", "March", "April", "May", "June", "July", "August",
      "September", "October", "November", "December">>

\* The event-date block: "Month Year", or the year alone when the month is
\* unusable; nothing unless the first date-parts element has two parts.
CslDate(item) ==
    IF Has(item, "event-date") /\ DOMAIN item["event-date"] # {}
    THEN LET date_parts == DateParts(item["event-date"])
         IN  IF date_parts # <<>> /\ Len(date_parts[1]) >= 2
             THEN LET month == date_parts[1][2]
                      year_part == date_parts[1][1]
                  IN  IF month # 0 /\ 1 <= month /\ month <= 12
                      THEN <<month_names[month], " ", ToString(year_part)>>
                      ELSE <<ToString(year_part)>>
             ELSE None
    ELSE None

\* parse_csl_json_item(item): the dict, NoDict when None.
parse_csl_json_item(item) ==
    IF item = NoDict \/ DOMAIN item = {} THEN NoDict
    ELSE IF ~Truthy(ItemText(item, "title")) THEN NoDict
    ELSE
        LET entry_type ==
                entry_type_map(CslTypeLower(IF Has(item, "type") THEN item["type"]
                                            ELSE "article"))
        IN  [type |-> entry_type,
             title |-> item["title"],
             year |-> CslYear(item),
             venue |-> IF Has(item, "container-title") THEN item["container-title"]
                       ELSE IF Has(item, "journal") THEN item["journal"]
                       ELSE IF Has(item, "event") THEN item["event"] ELSE None,
             volume |-> IF Truthy(ItemGet(item, "volume")) THEN item["volume"] ELSE None,
             issue |-> IF Truthy(ItemGet(item, "issue")) THEN item["issue"] ELSE None,
             pages |-> Or(Or(ItemText(item, "page"), ItemText(item, "pages")), None),
             doi |-> CslDoi(item),
             abstract |-> Or(ItemText(item, "abstract"), None),
             url |-> Or(Or(ItemText(item, "URL"), ItemText(item, "url")), None),
             keywords |-> ItemGet(item, "keyword"),
             subject_area |-> ItemGet(item, "subject"),
             citation_count |-> IF Has(item, "citation-count") THEN item["citation-count"]
                                ELSE NoneInt,
             authors |-> CslAuthors(IF Has(item, "author") THEN item["author"] ELSE <<>>),
             date |-> CslDate(item),
             location |-> IF Has(item, "event-place") THEN item["event-place"]
                          ELSE IF Has(item, "publisher-place") THEN item["publisher-place"]
                          ELSE None,
             status |-> IF entry_type = "patent" /\ Has(item, "status") THEN item["status"]
                        ELSE None,
             abstract_number |->
                 IF entry_type \in {"poster_abstract", "oral_presentation"}
                 THEN IF Has(item, "number") THEN item["number"]
                      ELSE IF Has(item, "note") THEN item["note"] ELSE None
                 ELSE None]

\* A loop over the items that gives up at the first item without a record.
RECURSIVE ParseCslItemsUntilRejected(_)
ParseCslItemsUntilRejected(items) ==
    IF items = <<>> THEN <<>>
    ELSE IF parse_csl_json_item(Head(items)) = NoDict THEN <<>>
    ELSE <<parse_csl_json_item(Head(items))>> \o ParseCslItemsUntilRejected(Tail(items))

\* The loop of parse_csl_json over a list of items.
RECURSIVE ParseCslItems(_)
ParseCslItems(items) ==
    IF items = <<>> THEN <<>>
    ELSE (IF parse_csl_json_item(Head(items)) # NoDict
          THEN <<parse_csl_json_item(Head(items))>> ELSE <<>>)
         \o ParseCslItems(Tail(items))

\* A payload is a record: kind "dict" with its item, kind "list" with its
\* items, kind "str" with json, the payload json.loads reads off the string
\* (kind "invalid" when it raises JSONDecodeError), or kind "other" for a
\* number, a boolean or null.
\* parse_csl_json(csl_json_data)
parse_csl_json(csl_json_data) ==
    LET data == IF csl_json_data.kind = "str" THEN csl_json_data.json ELSE csl_json_data
    IN  IF data.kind = "invalid" THEN <<>>
        ELSE IF data.kind = "dict" THEN ParseCslItems(<<data.item>>)
        ELSE IF data.kind = "list" THEN ParseCslItems(data.items)
        ELSE <<>>

\* A bridge whose call of db.create_author for the author at position
\* fail_at raises sqlite3.OperationalError (0: no call fails).  Every
\* statement before it has been committed by the Database method that ran
\* it, and neither bridge catches or rolls back.
PersistFailing(db, parsed, csl, fail_at) ==
    LET entry == EntryFromParsed(parsed)
        ce == create_entry(db, entry)
        list == GetList(parsed, "authors")
        fails == /\ fail_at \in 1..Len(list)
                 /\ Truthy(list[fail_at]) /\ Len(list[fail_at]) >= 3
        first_positions ==
            IF csl THEN {}
            ELSE {GetList(parsed, "first_author_positions")[i] :
                    i \in 1..Len(GetList(parsed, "first_author_positions"))}
    IN  IF ce.exc = NoExc /\ ce.ret[2] /\ fails
        THEN [db |-> LinkAuthors(ce.db, ce.ret[1], SubSeq(list, 1, fail_at - 1), 1,
                                 first_positions, NoneInt, csl).db,
              ret |-> <<NoneInt, FALSE>>, exc |-> "OperationalError"]
        ELSE AfterCreate(parsed, entry, ce, csl)

\* create_entry_from_citation once parse_citation has returned or raised.
PersistParsed(db, p) ==
    IF p.exc # NoExc THEN [db |-> db, ret |-> <<NoneInt, FALSE>>, exc |-> p.exc]
    ELSE PersistCitation(db, p.ret)

\* create_entry_from_citation(db, citation_text, entry_type)
create_entry_from_citation(db, flags, cit, entry_type, env) ==
    PersistParsed(db, parse_citation(flags, cit, entry_type, env))

\* create_entry_from_csl_json(db, csl_item)
create_entry_from_csl_json(db, csl_item) == PersistCsl(db, parse_csl_json_item(csl_item))

\* ------------------------------------------------------------------ app.py

\* Entry.from_dict(dict(row)): the Entry object of a stored row.
EntryOfRow(row) == [f \in DOMAIN EntryDefaults |-> row[f]]

\* enrich_entry_from_crossref once db.update_entry(updated_entry) has
\* returned or raised; what is raised inside the try block is caught and
\* gives (False, message).
EnrichAfterUpdate(db, ue) ==
    IF ue.exc # NoExc THEN [db |-> db, ret |-> FALSE]
    ELSE [db |-> ue.db, ret |-> ue.ret]

\* enrich_entry_from_crossref once lookup_doi_metadata has answered.
EnrichWith(db, entry, metadata) ==
    IF metadata = NoDict THEN [db |-> db, ret |-> FALSE]
    ELSE EnrichAfterUpdate(db, update_entry(db,
            [entry EXCEPT
                !.title = Or(Or(entry.title, Get(metadata, "title")), entry.title),
                !.year = OrInt(entry.year, GetInt(metadata, "year")),
                !.venue = Or(entry.venue, Get(metadata, "venue")),
                !.volume = Or(entry.volume, Get(metadata, "volume")),
                !.issue = Or(entry.issue, Get(metadata, "issue")),
                !.pages = Or(entry.pages, Get(metadata, "pages")),
                !.abstract = Or(entry.abstract, Get(metadata, "abstract")),
                !.url = Or(entry.url, Get(metadata, "url")),
                !.keywords = Or(entry.keywords, Get(metadata, "keywords")),
                !.subject_area = Or(entry.subject_area, Get(metadata, "subject_area")),
                !.citation_count = GetInt(metadata, "citation_count")]))

\* An enrich_entry_from_crossref that reports success when the registry
\* client is not installed.
enrich_reports_success_when_unavailable(db, flags, entry, script) ==
    IF ~Truthy(entry.doi) THEN [db |-> db, ret |-> FALSE]
    ELSE IF ~flags.habanero THEN [db |-> db, ret |-> TRUE]
    ELSE EnrichWith(db, entry, lookup_doi_metadata(flags.habanero, entry.doi, script).result)

\* enrich_entry_from_crossref(db, entry): [db, ret = success].
enrich_entry_from_crossref(db, flags, entry, script) ==
    IF ~Truthy(entry.doi) THEN [db |-> db, ret |-> FALSE]
    ELSE IF ~flags.habanero THEN [db |-> db, ret |-> FALSE]
    ELSE EnrichWith(db, entry, lookup_doi_metadata(flags.habanero, entry.doi, script).result)

\* Entry(id=entry.id, type=edited_type, title=edited_title.strip(), ...) of
\* the edit form with every field left as the form shows it: each text is
\* "x.strip() if x else None", each number "int(x) if x else None".
EditedEntry(entry) ==
    [f \in DOMAIN EntryDefaults |->
        IF f \in TextFields
        THEN IF Truthy(entry[f]) THEN Strip(entry[f], PyWhitespace)
             ELSE IF f = "title" THEN <<>> ELSE None
        ELSE IF f \in {"year", "citation_count"}
        THEN IF TruthyInt(entry[f]) THEN entry[f] ELSE NoneInt
        ELSE entry[f]]

\* The edit form once the author loop has run: "if anum_position !=
\* entry.anum_position: ... db.update_entry(updated_entry)".
EditAfterLinks(entry, updated_entry, la) ==
    IF la.anum_position = entry.anum_position THEN [db |-> la.db, ret |-> TRUE]
    ELSE LET ue == update_entry(la.db, [updated_entry EXCEPT
                                           !.anum_position = la.anum_position])
         IN  IF ue.exc # NoExc THEN [db |-> la.db, ret |-> FALSE]
             ELSE [db |-> ue.db, ret |-> TRUE]

\* The edit form once the first db.update_entry(updated_entry) has returned
\* or raised: what is raised is caught and shown; on success the links to
\* the authors get_entry_authors lists are deleted and the edited author
\* lines are linked in order, none as first author.
EditAfterUpdate(db, entry, updated_entry, edited_authors, ue) ==
    IF ue.exc # NoExc THEN [db |-> db, ret |-> FALSE]
    ELSE IF ~ue.ret THEN [db |-> ue.db, ret |-> FALSE]
    ELSE LET current == {l \in ue.db.entry_authors :
                            /\ l.entry_id = entry.id
                            /\ \E a \in ue.db.authors : a.id = l.author_id}
             cleared == [ue.db EXCEPT !.entry_authors = @ \ current]
         IN  EditAfterLinks(entry, updated_entry,
                            LinkAuthors(cleared, entry.id, edited_authors, 1, {},
                                        NoneInt, TRUE))

\* The "Save Changes" button of the edit form of a stored work, with the
\* author lines edited_authors (stripped, none empty): [db, ret = saved].
save_edit(db, entry, edited_authors) ==
    EditAfterUpdate(db, entry, EditedEntry(entry), edited_authors,
                    update_entry(db, EditedEntry(entry)))

\* One (idx, citation, parsed, success) put before the rest of the list.
PutFirst(record, rest) ==
    IF rest.exc # NoExc THEN rest
    ELSE [parsed_results |-> <<record>> \o rest.parsed_results, exc |-> NoExc]

\* "Parse All & Preview": one (idx, citation, parsed, success) per line, or the
\* exception parse_citation raised, which nothing here catches.
RECURSIVE ParseAll(_, _, _, _, _)
RECURSIVE ParseAllFrom(_, _, _, _, _, _)
ParseAllFrom(flags, citations, entry_type, env, i, p) ==
    IF p.exc # NoExc THEN [parsed_results |-> <<>>, exc |-> p.exc]
    ELSE PutFirst([idx |-> i, citation |-> citations[i], success |-> p.ret # NoDict],
                  ParseAll(flags, citations, entry_type, env, i + 1))
ParseAll(flags, citations, entry_type, env, i) ==
    IF i > Len(citations) THEN [parsed_results |-> <<>>, exc |-> NoExc]
    ELSE ParseAllFrom(flags, citations, entry_type, env, i,
                      parse_citation(flags, citations[i], entry_type, env))

\* The counters of a batch, and the records handed to the store so far.
NoCounts == [added_count |-> 0, duplicate_count |-> 0, error_count |-> 0, attempted |-> <<>>]

\* A bulk add that counts a record only when no exception was raised.
TallyDropsExceptions(n, idx, r) ==
    LET tried == [n EXCEPT !.attempted = Append(@, idx)]
    IN  IF r.exc # NoExc THEN tried
        ELSE IF ~TruthyInt(r.ret[1]) THEN [tried EXCEPT !.error_count = @ + 1]
        ELSE IF r.ret[2] THEN [tried EXCEPT !.added_count = @ + 1]
        ELSE [tried EXCEPT !.duplicate_count = @ + 1]

\* The body of the bulk add loop after create_entry_from_citation returned or
\* raised r: exactly one counter moves.
Tally(n, idx, r) ==
    LET tried == [n EXCEPT !.attempted = Append(@, idx)]
    IN  IF r.exc # NoExc \/ ~TruthyInt(r.ret[1]) THEN [tried EXCEPT !.error_count = @ + 1]
        ELSE IF r.ret[2] THEN [tried EXCEPT !.added_count = @ + 1]
        ELSE [tried EXCEPT !.duplicate_count = @ + 1]

\* "Add All to Database": the loop over parsed_results from record i on.
\* ctx holds the provider flags, their behaviour and bulk_entry_type.
RECURSIVE AddAll(_, _, _, _, _)
RECURSIVE AddAllFrom(_, _, _, _, _)
AddAllFrom(ctx, parsed_results, i, n, r) ==
    AddAll(r.db, ctx, parsed_results, i + 1, Tally(n, parsed_results[i].idx, r))
AddAll(db, ctx, parsed_results, i, n) ==
    IF i > Len(parsed_results) THEN [db |-> db, counts |-> n]
    ELSE IF ~parsed_results[i].success THEN AddAll(db, ctx, parsed_results, i + 1, n)
    ELSE AddAllFrom(ctx, parsed_results, i, n,
                    create_entry_from_citation(db, ctx.flags, parsed_results[i].citation,
                                               ctx.entry_type, ctx.env))

\* The body of the CSL import loop after the bridge code returned or raised r.
TallyCsl(n, i, r) ==
    LET tried == [n EXCEPT !.attempted = Append(@, i)]
    IN  IF r.exc # NoExc THEN [tried EXCEPT !.error_count = @ + 1]
        ELSE IF r.ret[2] THEN [tried EXCEPT !.added_count = @ + 1]
        ELSE [tried EXCEPT !.duplicate_count = @ + 1]

\* "Import All Entries": the loop over parsed_items from item i on.  Its body
\* is the CSL bridge written out in place.
RECURSIVE ImportAll(_, _, _, _)
RECURSIVE ImportAllFrom(_, _, _, _)
ImportAllFrom(parsed_items, i, n, r) ==
    ImportAll(r.db, parsed_items, i + 1, TallyCsl(n, i, r))
ImportAll(db, parsed_items, i, n) ==
    IF i > Len(parsed_items) THEN [db |-> db, counts |-> n]
    ELSE ImportAllFrom(parsed_items, i, n, PersistCsl(db, parsed_items[i]))

\* ------------------------------------------------------ values in play

\* Titles: an ASCII title, the same title in another case with a trailing
\* space, a title with a non-ASCII capital, a title ending in a tab, and a
\* short one.
TitleA == <<"A", " ", "n", "o", "v", "e", "l", " ", "m", "e", "t", "h", "o", "d">>
TitleAVariant == <<"a", " ", "N", "o", "v", "e", "l", " ", "M", "e", "t", "h", "o", "d", " ">>
TitleE == <<"E'", "t", "u", "d", "e", " ", "d", "e", " ", "c", "a", "s">>
TitleTab == <<"A", " ", "n", "o", "v", "e", "l", " ", "m", "e", "t", "h", "o", "d", "\t">>
TitleO == <<"O", "t", "h", "e", "r">>

\* Identifiers, as the tokens the cleanup tells apart.
DoiA == <<"10.1/a">>
DoiB == <<"10.1/b">>
DoiAPrefixed == <<"doi:", "10.1/a">>
UrlA == <<"https://doi.org/", "10.1/a">>
UrlB == <<"https://doi.org/", "10.1/b">>
UrlPlain == <<"https://example.org/x">>

\* Author names.
NameOwnerStar == <<"K", "a", "z", "e", "r", "o", "u", "n", "i", ",", " ", "A", ".", " ", "S", ".", "*">>
NameOwner == <<"K", "a", "z", "e", "r", "o", "u", "n", "i", ",", " ", "A", ".", " ", "S", ".">>
NameOwnerLower == <<"k", "a", "z", "e", "r", "o", "u", "n", "i", ",", " ", " ", "a", ".", " ", "s", ".">>
NameDoe == <<"D", "o", "e", ",", " ", "J", ".">>
NameLi == <<"L", "i">>
NameDoeFamily == <<"D", "o", "e">>
NameDoeGiven == <<"J", ".">>

\* Short texts for the remaining fields.
AbsOld == <<"abstract-old">>
AbsNew == <<"abstract-new">>
KwNew == <<"keywords-new">>
AreaNew == <<"area-new">>

\* A row of table entries: the columns given, NULL elsewhere.
Row(kw) ==
    [c \in EntryColumns |->
        IF c \in DOMAIN kw THEN kw[c] ELSE IF c \in IntFields THEN NoneInt ELSE None]

\* Rows a database file holds when the application opens it.
Row1 == Row([id |-> 1, type |-> "publication", title |-> TitleAVariant, year |-> 2021])
Row2 == Row([id |-> 2, type |-> "publication", title |-> TitleE, year |-> 2020,
             doi |-> DoiB, abstract |-> AbsOld, citation_count |-> 5])
Row3 == Row([id |-> 3, type |-> "publication", title |-> TitleTab, year |-> 2021,
             doi |-> DoiA])
SeedRows == {Row1, Row2, Row3}

\* The author rows and author links that come with the seed rows.
SeedAuthors == {[id |-> 1, name |-> NameDoe, is_anum |-> FALSE]}
SeedLinks(rows) == {EntryAuthor(r.id, 1, 1, TRUE) : r \in rows}

\* What the registry's message yields once lookup_doi_metadata has read it.
MsgFull ==
    [title |-> TitleA, authors |-> <<NameDoe>>, venue |-> None, year |-> 2021,
     volume |-> None, issue |-> None, pages |-> None, abstract |-> AbsNew,
     url |-> UrlB, keywords |-> KwNew, subject_area |-> AreaNew, citation_count |-> 7]
MsgBare ==
    [title |-> None, authors |-> <<>>, venue |-> None, year |-> NoneInt,
     volume |-> None, issue |-> None, pages |-> None, abstract |-> None,
     url |-> None, keywords |-> None, subject_area |-> None, citation_count |-> NoneInt]

\* The outcomes of one call of cr.works.
Ok(m) == [kind |-> "ok", msg |-> m]
Empty == [kind |-> "empty"]
RedirectTo(d) == [kind |-> "redirect", to |-> d]
RedirectBare == [kind |-> "redirect_bare"]
Timeout == [kind |-> "timeout"]
OtherError == [kind |-> "error"]
Outcomes ==
    {Ok(MsgFull), Ok(MsgBare), Empty, RedirectTo(DoiA), RedirectTo(DoiB), RedirectBare,
     Timeout, OtherError}

\* Length of the scripted sequence of registry outcomes.
ScriptLen == 3
Scripts == [1..ScriptLen -> Outcomes]

\* The "Check first authors" loop of parse_citation_fallback: with an
\* asterisk anywhere before the title, every author whose name occurs there.
FallbackFirstAuthors(fb_authors, star, section) ==
    LET marked == {i \in 1..Len(fb_authors) : star /\ fb_authors[i] \in section}
    IN  [i \in 1..Cardinality(marked) |->
            CHOOSE m \in marked : Cardinality({n \in marked : n < m}) = i - 1]

\* What parse_citation_fallback returns for a text it can read, whose part
\* before the title holds an asterisk (star) and the strings of section.
Fb(title, fb_authors, year, doi, star, section) ==
    [title |-> title, year |-> year, venue |-> None, volume |-> None, issue |-> None,
     pages |-> None, doi |-> doi, date |-> None, location |-> None,
     authors |-> fb_authors,
     first_author_positions |->
         IF FallbackFirstAuthors(fb_authors, star, section) # <<>>
         THEN FallbackFirstAuthors(fb_authors, star, section)
         ELSE IF fb_authors # <<>> THEN <<1>> ELSE <<>>]

\* The title search of parse_citation_fallback over the parts between the
\* periods of the text.  A part is [text, words, chars, excluded]: its words
\* and characters counted, excluded when it is under 10 characters, opens
\* with "(" or a digit, holds "doi:" or is a pair of initials.  The title is
\* the part after the first with the most words among those of more than
\* three, the longest of these, the earliest on a tie; None when there is none.
FallbackTitle(parts) ==
    LET candidates == {i \in 2..Len(parts) : ~parts[i].excluded /\ parts[i].words > 3}
        Better(i, j) ==
            \/ parts[i].words > parts[j].words
            \/ parts[i].words = parts[j].words /\ parts[i].chars > parts[j].chars
            \/ parts[i].words = parts[j].words /\ parts[i].chars = parts[j].chars /\ i <= j
    IN  IF candidates # {}
        THEN parts[CHOOSE i \in candidates : \A j \in candidates : Better(i, j)].text
        ELSE IF Len(parts) > 1 /\ parts[2].words > 3 THEN parts[2].text
        ELSE None

\* The names that occur before the title of "Doe, J.* & Kazerouni, A. S. ..."
SectionA == {NameDoeFamily, NameDoeGiven, NameDoe, NameOwner, BeforeComma(NameOwner)}

\* Citation texts: one under 20 characters; one whose first author carries
\* an asterisk and whose second is the owner, which the regex parser reads
\* as "Doe", "J.", "Kazerouni, A. S."; the same with an identifier in it; one whose chapter
\* title is a run of blanks ("Doe, J." + 12 spaces + ". in Xbook (Pub, 2000)."),
\* which the book-chapter pattern strips to ''; one no regex reads; one of a
\* conference poster.
CitShort ==
    [len_ok |-> FALSE, kw |-> {}, doi |-> None, fb |-> NoDict, titles |-> {},
     star |-> FALSE, section |-> {}, marked |-> {}]
CitA ==
    [len_ok |-> TRUE, kw |-> {}, doi |-> None,
     fb |-> Fb(TitleA, <<NameDoeFamily, NameDoeGiven, NameOwner>>, 2021, None, TRUE, SectionA),
     titles |-> {TitleA}, star |-> TRUE, section |-> SectionA, marked |-> {NameDoeFamily}]
CitADoi ==
    [CitA EXCEPT !.doi = DoiA, !.fb.doi = DoiA]
CitBlank ==
    [len_ok |-> TRUE, kw |-> {"book"}, doi |-> None,
     fb |-> [Fb(<<>>, <<NameDoe>>, 2000, None, FALSE, {NameDoe, NameDoeFamily}) EXCEPT !.venue = <<"Xbook">>],
     titles |-> {}, star |-> FALSE, section |-> {NameDoe, NameDoeFamily}, marked |-> {}]
CitNothing ==
    [len_ok |-> TRUE, kw |-> {}, doi |-> None, fb |-> NoDict, titles |-> {},
     star |-> FALSE, section |-> {}, marked |-> {}]
CitE ==
    [len_ok |-> TRUE, kw |-> {"conference", "poster"}, doi |-> None,
     fb |-> Fb(TitleE, <<NameDoe>>, 2020, None, FALSE, {NameDoe}), titles |-> {TitleE},
     star |-> FALSE, section |-> {NameDoe, NameDoeFamily}, marked |-> {}]

\* "Smith, J. A novel method. Journal of Testing 12, 345 (2021). doi:10.1/abc"
\* as the regex parser reads it: the parts between its periods; the authors
\* cut at the first period that a capital and 20 characters without a
\* period follow, which is the one after "method"; the venue and the year.
DoiC == <<"10.1/abc">>
JournalPart == <<"Journal of Testing 12, 345 (2021)">>
PartsSmith ==
    <<[text |-> <<"Smith, J">>, words |-> 2, chars |-> 8, excluded |-> TRUE],
      [text |-> TitleA, words |-> 3, chars |-> 14, excluded |-> FALSE],
      [text |-> JournalPart, words |-> 6, chars |-> 33, excluded |-> FALSE],
      [text |-> <<"doi:10">>, words |-> 1, chars |-> 6, excluded |-> TRUE],
      [text |-> <<"1/abc">>, words |-> 1, chars |-> 5, excluded |-> TRUE]>>
AuthorsSmith == <<<<"S", "m", "i", "t", "h">>, <<"J", ".", " ", "A novel method">>>>
CitSmith ==
    [len_ok |-> TRUE, kw |-> {"journal"}, doi |-> DoiC,
     fb |-> [Fb(FallbackTitle(PartsSmith), AuthorsSmith, 2021, DoiC, FALSE,
                {AuthorsSmith[1], AuthorsSmith[2]})
             EXCEPT !.venue = <<"Testing">>, !.volume = <<"12">>, !.issue = <<"345">>],
     titles |-> {TitleA, JournalPart}, star |-> FALSE,
     section |-> {AuthorsSmith[1], AuthorsSmith[2]}, marked |-> {}]
\* "Doe, J. A novel method. Handbook of Imaging 12, 1-9 (2021)." as the regex
\* parser reads it; the lower-cased text holds "book".
HandbookPart == <<"Handbook of Imaging 12, 1-9 (2021)">>
PartsBook ==
    <<[text |-> <<"Doe, J">>, words |-> 2, chars |-> 6, excluded |-> TRUE],
      [text |-> TitleA, words |-> 3, chars |-> 14, excluded |-> FALSE],
      [text |-> HandbookPart, words |-> 6, chars |-> 34, excluded |-> FALSE]>>
AuthorsBook == <<NameDoeFamily, AuthorsSmith[2]>>
CitBook ==
    [len_ok |-> TRUE, kw |-> {"book"}, doi |-> None,
     fb |-> [Fb(FallbackTitle(PartsBook), AuthorsBook, 2021, None, FALSE,
                {AuthorsBook[1], AuthorsBook[2]})
             EXCEPT !.venue = <<"Imaging">>, !.volume = <<"12">>, !.issue = <<"1">>],
     titles |-> {TitleA, HandbookPart}, star |-> FALSE,
     section |-> {AuthorsBook[1], AuthorsBook[2]}, marked |-> {}]
ParseCits == {CitShort, CitA, CitADoi, CitBlank, CitNothing, CitE, CitSmith, CitBook}

\* What parse_with_grobid returns when it finds a title.
GrobidA ==
    [title |-> TitleA, authors |-> <<NameDoe>>, venue |-> None, year |-> 2021,
     volume |-> None, issue |-> None, pages |-> None, doi |-> None]
GrobidB == [GrobidA EXCEPT !.authors = <<>>, !.doi = DoiB]

\* The first work of an OpenAlex search, as lookup_openalex reads it: one with
\* a title and an identifier, one whose title is null, one whose title is
\* null and that lists no author.
WorkA ==
    [title |-> TitleA, authors |-> <<NameDoe>>, venue |-> None, year |-> 2021,
     doi |-> UrlA, url |-> None, citation_count |-> 3, abstract |-> None,
     keywords |-> <<>>]
WorkUntitled == [WorkA EXCEPT !.title = None, !.doi = None]
WorkUntitledAnon == [WorkUntitled EXCEPT !.authors = <<>>]

\* Registry scripts used while parsing: nothing found, a full record, a
\* record without a title.
Always(o) == [k \in 1..ScriptLen |-> o]
ParseScripts == {Always(Empty), Always(Ok(MsgFull)), Always(Ok(MsgBare))}

ParseEnvs ==
    [grobid : {NoDict, GrobidA, GrobidB},
     openalex : {NoDict, WorkA, WorkUntitled, WorkUntitledAnon},
     crossref : [{DoiA, DoiB} -> ParseScripts]]

DefaultTypes == {"publication", "poster_abstract"}

\* Providers that answer nothing, and two that answer.
EnvSilent ==
    [grobid |-> NoDict, openalex |-> NoDict,
     crossref |-> [d \in {DoiA, DoiB} |-> Always(Empty)]]
EnvUntitled == [EnvSilent EXCEPT !.openalex = WorkUntitled]
EnvFull ==
    [grobid |-> GrobidA, openalex |-> WorkA,
     crossref |-> [d \in {DoiA, DoiB} |-> Always(Ok(MsgFull))]]
SubmitEnvs == {EnvSilent, EnvUntitled, EnvFull}
SubmitCits == {CitA, CitADoi, CitBlank, CitNothing, CitE}

\* CSL items: a journal article, a record dated by a bare year, one with a
\* blank title, a chapter by the owner with a URL-form identifier.
ItemA ==
    ("title" :> TitleA) @@ ("type" :> "article-journal")
    @@ ("author" :> <<[family |-> <<"D", "o", "e">>, given |-> <<"J", ".">>]>>)
    @@ ("issued" :> ("date-parts" :> <<<<2021>>>>))
ItemE == ("title" :> TitleE) @@ ("year" :> 2020)
ItemBlank == ("title" :> <<>>) @@ ("type" :> "article")
ItemChapter ==
    ("title" :> TitleO) @@ ("type" :> "Chapter") @@ ("DOI" :> UrlB)
    @@ ("author" :> <<[family |-> <<"K", "a", "z", "e", "r", "o", "u", "n", "i">>,
                       given |-> <<"A", ".", " ", "S", ".">>]>>)
CslItems == {ItemA, ItemE, ItemBlank, ItemChapter}

\* str.upper() on the characters in play.
PyUpperChar(c) ==
    IF \E p \in UnicodeCase : p[2] = c THEN (CHOOSE p \in UnicodeCase : p[2] = c)[1] ELSE c
PyUpper(s) == [i \in 1..Len(s) |-> PyUpperChar(s[i])]

\* s with every space replaced by the run of characters run.
RECURSIVE WidenSpaces(_, _)
WidenSpaces(s, run) ==
    IF s = <<>> THEN <<>>
    ELSE (IF Head(s) = " " THEN run ELSE <<Head(s)>>) \o WidenSpaces(Tail(s), run)

\* Author names handed to the name functions: the owner's names, other
\* names and the empty name, in three cases, with their spaces as they are
\* or widened to runs of whitespace and asterisks, between a prefix and a
\* suffix of whitespace and asterisks.
NameBases == ANUM_NAMES \cup {NameDoe, NameLi, <<>>, BeforeComma(NameOwner)}
NameRuns == {<<" ">>, <<" ", "\t">>, <<" ", "*", " ">>}
NamePrefixes == {<<>>, <<" ">>, <<"*">>, <<"\t", " ">>}
NameSuffixes == {<<>>, <<"*">>, <<"*", "*">>, <<" ", "*">>, <<"*", " ">>}
Names ==
    {pre \o WidenSpaces(b, run) \o post :
        b \in NameBases \cup {PyUpper(n) : n \in NameBases} \cup {PyLower(n) : n \in NameBases},
        run \in NameRuns, pre \in NamePrefixes, post \in NameSuffixes}

\* Items for parse_csl_json_item alone: a title, and for each other key one
\* of a few values or no such key (Absent).
Absent == <<"<absent>">>
NoType == "<absent>"
KeyIf(k, v, absent) == IF v = absent THEN <<>> ELSE k :> v
CslTypes ==
    {"article", "article-journal", "book", "paper-conference", "presentation", "poster",
     "chapter", "patent", "thesis", "Poster"}
CslDoiForms ==
    {DoiA, DoiAPrefixed, UrlA, <<"http://dx.doi.org/", "10.1/a">>,
     <<"https://dx.doi.org/", "10.1/a">>, <<"http://doi.org/", "10.1/a">>,
     <<" ", "doi:", " ", "10.1/a", " ">>, <<"https://doi.org/", "doi:", "10.1/a">>}
ItemOf(c) ==
    ("title" :> TitleO) @@ KeyIf("type", c.type, NoType) @@ KeyIf("number", c.number, Absent)
    @@ KeyIf("status", c.status, Absent) @@ KeyIf("DOI", c.doi, Absent)
    @@ ("author" :> <<[family |-> <<"D", "o", "e">>, given |-> <<"A">>]>>)
CslItemSpace ==
    {ItemOf(c) : c \in [type : CslTypes \cup {NoType}, number : {Absent, <<"42">>},
                        status : {Absent, <<"granted">>}, doi : CslDoiForms \cup {Absent}]}

\* Items for the dates of parse_csl_json_item: "issued" and "event-date" are
\* absent, an empty dict, a dict without date-parts, or one whose date-parts
\* is [], [[]], [[year]], [[year, month]] or [[year, month, day]]; "year" is
\* absent or a number.  The numbers are JSON numbers, which int() returns
\* as they are.
EmptyDict == [k \in {} |-> 0]
AbsentDict == "<absent>" :> TRUE
RawDate == "raw" :> <<"2021">>
DateOf(parts) == "date-parts" :> parts
IssuedForms ==
    {EmptyDict, RawDate, DateOf(<<>>), DateOf(<<<<>>>>), DateOf(<<<<2021>>>>),
     DateOf(<<<<2021, 5>>>>)}
EventDateForms ==
    {EmptyDict, RawDate, DateOf(<<>>), DateOf(<<<<>>>>), DateOf(<<<<2021>>>>),
     DateOf(<<<<2021, 12, 3>>>>)}
    \cup {DateOf(<<<<2021, m>>>>) : m \in {0, 1, 5, 12, 13}}
DateItemOf(c) ==
    ("title" :> TitleO)
    @@ (IF c.issued = AbsentDict THEN <<>> ELSE "issued" :> c.issued)
    @@ (IF c.year = NoneInt THEN <<>> ELSE "year" :> c.year)
    @@ (IF c.event = AbsentDict THEN <<>> ELSE "event-date" :> c.event)
CslDateItems ==
    {DateItemOf(c) : c \in [issued : IssuedForms \cup {AbsentDict}, year : {NoneInt, 2020},
                            event : EventDateForms \cup {AbsentDict}]}

\* Uploaded payloads: arrays of items and of null, single items, a string
\* that is not JSON, a string holding an array, a number.
CslList(its) == [kind |-> "list", items |-> its]
CslDict(it) == [kind |-> "dict", item |-> it]
CslStr(d) == [kind |-> "str", json |-> d]
CslOther == [kind |-> "other"]
CslInvalid == [kind |-> "invalid"]

\* Registry scripts used when a stored work is refreshed.
EnrichScripts == {Always(Ok(MsgFull)), Always(Empty), Always(OtherError)}

\* Bounds: calls of one bridge on the same input, records in one batch, works
\* in the store.
MaxSubmits == 2
MaxBatch == 2
MaxWorks == 4

\* The sequences over S of length 1..n.
SeqsUpTo(S, n) == UNION {[1..k -> S] : k \in 1..n}

CslPayloads ==
    {CslList(its) : its \in SeqsUpTo({ItemA, ItemBlank, ItemChapter, NoDict}, MaxBatch)}
    \cup {CslList(<<>>), CslOther, CslStr(CslInvalid), CslStr(CslList(<<ItemA>>)),
          CslStr(CslStr(CslList(<<ItemA>>)))}
    \cup {CslDict(it) : it \in {ItemA, ItemBlank}}

\* ----------------------------------------------------------------- state

VARIABLES
    entries,        \* table entries
    authors,        \* table authors
    entry_authors,  \* table entry_authors
    flags,          \* GROBID_AVAILABLE, HABANERO_AVAILABLE, OPENALEX_AVAILABLE
    req,            \* the call or page interaction being served, with its inputs
    res             \* what it has produced so far, one element per handler run

vars == <<entries, authors, entry_authors, flags, req, res>>
store == <<entries, authors, entry_authors>>

\* The Database object over the three tables.
Db == [entries |-> entries, authors |-> authors, entry_authors |-> entry_authors]

\* The three tables after a call that left the database db.
SetStore(db) ==
    /\ entries' = db.entries
    /\ authors' = db.authors
    /\ entry_authors' = db.entry_authors

AllFlags == [grobid : BOOLEAN, habanero : BOOLEAN, openalex : BOOLEAN]

EmptyStore == entries = {} /\ authors = {} /\ entry_authors = {}

\* ------------------------------------------------ lookup_doi_metadata runs

LookupRequests ==
    {[op |-> "lookup", doi |-> d, script |-> sc] :
        d \in {DoiA, DoiAPrefixed, <<"https://dx.doi.org/", "10.1/a">>,
               <<"https://doi.org/", "doi:", "10.1/a">>},
        sc \in Scripts}

InitLookup ==
    /\ EmptyStore
    /\ flags \in {f \in AllFlags : ~f.grobid /\ ~f.openalex}
    /\ req \in LookupRequests
    /\ res = <<>>

\* One call lookup_doi_metadata(req.doi).
Lookup ==
    /\ req.op = "lookup"
    /\ res = <<>>
    /\ res' = <<lookup_doi_metadata(flags.habanero, req.doi, req.script)>>
    /\ UNCHANGED <<store, flags, req>>

NextLookup == Lookup

SpecLookup == InitLookup /\ [][NextLookup]_vars

\* ------------------------------------------------------ parse_citation runs

ParseRequests ==
    {[op |-> "parse", cit |-> c, default_type |-> t, env |-> e] :
        c \in ParseCits, t \in DefaultTypes, e \in ParseEnvs}

InitParse ==
    /\ EmptyStore
    /\ flags \in AllFlags
    /\ req \in ParseRequests
    /\ res = <<>>

\* One call parse_citation(req.cit, req.default_type).
Parse ==
    /\ req.op = "parse"
    /\ res = <<>>
    /\ res' = <<parse_citation(flags, req.cit, req.default_type, req.env)>>
    /\ UNCHANGED <<store, flags, req>>

NextParse == Parse

SpecParse == InitParse /\ [][NextParse]_vars

\* ------------------------------------------- parse_citation, path by path

InitSteps ==
    /\ EmptyStore
    /\ flags \in AllFlags
    /\ req \in {[op |-> "steps", cit |-> r.cit, default_type |-> r.default_type,
                  env |-> r.env] : r \in ParseRequests}
    /\ res = <<>>

\* One entry of res: the strategy entered (0 for a return of None outside
\* the strategies), what it gave, and whether it called
\* parse_citation_fallback.
Step(strategy, out, fallback) == [strategy |-> strategy, out |-> out, fallback |-> fallback]

\* "if not citation_text or len(citation_text.strip()) < 20: return None"
EarlyReturn ==
    /\ req.op = "steps"
    /\ res = <<>>
    /\ ~req.cit.len_ok
    /\ res' = <<Step(0, Returned(NoDict, 0), FALSE)>>
    /\ UNCHANGED <<store, flags, req>>

\* The block of Strategy 1.
TryStrategy1 ==
    /\ req.op = "steps"
    /\ res = <<>>
    /\ req.cit.len_ok
    /\ res' = <<Step(1, Strategy1(flags, req.cit, req.default_type, req.env), FALSE)>>
    /\ UNCHANGED <<store, flags, req>>

\* The block of Strategy 2, reached when Strategy 1 did not return.
TryStrategy2 ==
    /\ req.op = "steps"
    /\ Len(res) = 1
    /\ res[1].strategy = 1 /\ ~res[1].out.done
    /\ res' = Append(res, Step(2, Strategy2(flags, req.cit, req.default_type, req.env), FALSE))
    /\ UNCHANGED <<store, flags, req>>

\* The block of Strategy 3, reached when Strategy 2 did not return; it calls
\* parse_citation_fallback when OPENALEX_AVAILABLE.
TryStrategy3 ==
    /\ req.op = "steps"
    /\ Len(res) = 2
    /\ ~res[2].out.done
    /\ res' = Append(res, Step(3, Strategy3(flags, req.cit, req.default_type, req.env),
                               flags.openalex))
    /\ UNCHANGED <<store, flags, req>>

\* The block of Strategy 4, reached when Strategy 3 did not return; it calls
\* parse_citation_fallback.
TryStrategy4 ==
    /\ req.op = "steps"
    /\ Len(res) = 3
    /\ ~res[3].out.done
    /\ res' = Append(res, Step(4, Strategy4(flags, req.cit, req.default_type, req.env), TRUE))
    /\ UNCHANGED <<store, flags, req>>

\* The closing "return None", reached when Strategy 4 did not return.
ReturnNone ==
    /\ req.op = "steps"
    /\ Len(res) = 4
    /\ ~res[4].out.done
    /\ res' = Append(res, Step(0, Returned(NoDict, 0), FALSE))
    /\ UNCHANGED <<store, flags, req>>

NextSteps ==
    \/ EarlyReturn
    \/ TryStrategy1
    \/ TryStrategy2
    \/ TryStrategy3
    \/ TryStrategy4
    \/ ReturnNone

SpecSteps == InitSteps /\ [][NextSteps]_vars

\* ------------------------------------------------------- name function runs

InitName ==
    /\ EmptyStore
    /\ flags \in {f \in AllFlags : ~f.grobid /\ ~f.openalex /\ ~f.habanero}
    /\ req \in {[op |-> "name", name |-> n] : n \in Names}
    /\ res = <<>>

\* One call of normalize_author_name(req.name) and of is_anum_author(req.name).
NormalizeName ==
    /\ req.op = "name"
    /\ res = <<>>
    /\ res' = <<[normalized |-> normalize_author_name(req.name),
                 is_anum |-> is_anum_author(req.name)]>>
    /\ UNCHANGED <<store, flags, req>>

NextName == NormalizeName

SpecName == InitName /\ [][NextName]_vars

\* --------------------------------------------------- parse_csl_json_item runs

InitCsl ==
    /\ EmptyStore
    /\ flags \in {f \in AllFlags : ~f.grobid /\ ~f.openalex /\ ~f.habanero}
    /\ req \in {[op |-> "cslitem", item |-> it] : it \in CslItemSpace \cup CslDateItems}
    /\ res = <<>>

\* One call parse_csl_json_item(req.item).
ParseItem ==
    /\ req.op = "cslitem"
    /\ res = <<>>
    /\ res' = <<parse_csl_json_item(req.item)>>
    /\ UNCHANGED <<store, flags, req>>

NextCsl == ParseItem

SpecCsl == InitCsl /\ [][NextCsl]_vars

\* ------------------------------------------------- determine_entry_type runs

\* The words the two category computations look for in the lower-cased
\* text, and the entries of the "Default Entry Type" selector.
TypeKeywords ==
    MeetingWords \cup {"poster", "abstract", "oral", "presentation", "patent", "chapter", "book"}
EntryTypeOptions ==
    {"publication", "book_chapter", "patent", "oral_presentation", "poster_abstract"}

InitType ==
    /\ EmptyStore
    /\ flags \in {f \in AllFlags : ~f.grobid /\ ~f.openalex /\ ~f.habanero}
    /\ req \in {[op |-> "type", kw |-> k, default_type |-> t] :
                  k \in SUBSET TypeKeywords, t \in EntryTypeOptions}
    /\ res = <<>>

\* One call determine_entry_type(citation_lower) under default_type.
DetermineType ==
    /\ req.op = "type"
    /\ res = <<>>
    /\ res' = <<determine_entry_type(req.kw, req.default_type)>>
    /\ UNCHANGED <<store, flags, req>>

NextType == DetermineType

SpecType == InitType /\ [][NextType]_vars

\* ------------------------------------ Database.create_entry, two sessions

\* Two sessions over the same database file, each with its own connection
\* (get_database keeps one Database per session), submit the same Entry.
\* Each runs create_entry: the SELECTs of check_duplicate, then the INSERT
\* and commit; no lock or transaction spans the two, so the sessions'
\* statements interleave.
Sessions == {"s1", "s2"}
RaceEntries ==
    {Entry([type |-> "publication", title |-> TitleA, year |-> 2021]),
     Entry([type |-> "publication", title |-> TitleO, doi |-> DoiB]),
     Entry([type |-> "publication", title |-> TitleO, year |-> 2019, doi |-> DoiC])}

InitRace ==
    /\ entries \in SUBSET SeedRows
    /\ authors = IF entries = {} THEN {} ELSE SeedAuthors
    /\ entry_authors = SeedLinks(entries)
    /\ flags \in {f \in AllFlags : ~f.grobid /\ ~f.openalex /\ ~f.habanero}
    /\ req \in {[op |-> "race", entry |-> e] : e \in RaceEntries}
    /\ res = [s \in Sessions |->
                [pc |-> "check", passed |-> FALSE, ret |-> <<NoneInt, FALSE>>, exc |-> NoExc]]

\* "existing_id = self.check_duplicate(entry)" and the return on a duplicate.
CheckDuplicate ==
    /\ req.op = "race"
    /\ \E s \in Sessions :
          /\ res[s].pc = "check"
          /\ LET existing_id == check_duplicate(Db, req.entry)
             IN  res' = [res EXCEPT ![s] =
                            IF TruthyInt(existing_id)
                            THEN [@ EXCEPT !.pc = "done", !.ret = <<existing_id, FALSE>>]
                            ELSE [@ EXCEPT !.pc = "insert", !.passed = TRUE]]
    /\ UNCHANGED <<store, flags, req>>

\* The INSERT, the commit and the return of create_entry.
InsertAndCommit ==
    /\ req.op = "race"
    /\ \E s \in Sessions :
          /\ res[s].pc = "insert"
          /\ LET r == InsertEntry(Db, req.entry)
             IN  /\ SetStore(r.db)
                 /\ res' = [res EXCEPT ![s] = [@ EXCEPT !.pc = "done", !.ret = r.ret,
                                                        !.exc = r.exc]]
    /\ UNCHANGED <<flags, req>>

NextRace ==
    \/ CheckDuplicate
    \/ InsertAndCommit

SpecRace == InitRace /\ [][NextRace]_vars

\* --------------------------------------- Database.create_author, call by call

\* Calls of create_author and of delete_entry on a Database, in any order.
MaxCalls == 3
AuthorNames == {NameDoe, NameOwner, NameOwnerLower}

InitAuthors ==
    /\ entries \in SUBSET SeedRows
    /\ authors = IF entries = {} THEN {} ELSE SeedAuthors
    /\ entry_authors = SeedLinks(entries)
    /\ flags \in {f \in AllFlags : ~f.grobid /\ ~f.openalex /\ ~f.habanero}
    /\ req = [op |-> "authors"]
    /\ res = <<>>

\* One call db.create_author(Author(name=name, is_anum=is_anum)).
CreateAuthor ==
    /\ req.op = "authors"
    /\ Len(res) < MaxCalls
    /\ \E name \in AuthorNames, is_anum \in BOOLEAN :
          LET r == create_author(Db, Author(name, is_anum))
          IN  /\ SetStore(r.db)
              /\ res' = Append(res, [call |-> "create_author", name |-> name,
                                     is_anum |-> is_anum, ret |-> r.ret,
                                     before |-> Db, after |-> r.db])
    /\ UNCHANGED <<flags, req>>

\* One call db.delete_entry(id) of a stored work.
DeleteWork ==
    /\ req.op = "authors"
    /\ Len(res) < MaxCalls
    /\ \E row \in entries :
          LET r == delete_entry(Db, row.id)
          IN  /\ SetStore(r.db)
              /\ res' = Append(res, [call |-> "delete_entry", name |-> <<>>,
                                     is_anum |-> FALSE, ret |-> row.id,
                                     before |-> Db, after |-> r.db])
    /\ UNCHANGED <<flags, req>>

NextAuthors ==
    \/ CreateAuthor
    \/ DeleteWork

SpecAuthors == InitAuthors /\ [][NextAuthors]_vars

\* What a bridge call is recorded as: its result, the record it worked on,
\* what the duplicate check finds for that record, the store before the call,
\* and the numbers of works and of links of the returned work after it.
Outcome(r, parsed) ==
    [ret |-> r.ret, exc |-> r.exc, parsed |-> parsed,
     known |-> IF parsed = NoDict THEN NoneInt
               ELSE check_duplicate(Db, EntryFromParsed(parsed)),
     before |-> Db,
     works |-> Cardinality(r.db.entries),
     links |-> Cardinality({l \in r.db.entry_authors : l.entry_id = r.ret[1]})]

\* The store and the record of a bridge call r on the record parsed.
BridgeDone(r, parsed) ==
    /\ SetStore(r.db)
    /\ res' = Append(res, Outcome(r, parsed))

\* ------------------------------------- a bridge that fails while linking

\* Records to persist: what parse_citation gives the starred citation with
\* no provider, and what parse_csl_json_item gives two CSL items.
FaultRecords ==
    {[parsed |-> parse_citation([grobid |-> FALSE, habanero |-> FALSE, openalex |-> FALSE],
                                CitA, "publication", EnvSilent).ret, csl |-> FALSE],
     [parsed |-> parse_csl_json_item(ItemA), csl |-> TRUE],
     [parsed |-> parse_csl_json_item(ItemChapter), csl |-> TRUE]}

InitFault ==
    /\ entries \in SUBSET SeedRows
    /\ authors = IF entries = {} THEN {} ELSE SeedAuthors
    /\ entry_authors = SeedLinks(entries)
    /\ flags \in {f \in AllFlags : ~f.grobid /\ ~f.openalex /\ ~f.habanero}
    /\ req \in {[op |-> "fault", parsed |-> r.parsed, csl |-> r.csl, fail_at |-> k] :
                  r \in FaultRecords, k \in 0..3}
    /\ res = <<>>

\* The first submission of the record, during which a database call of the
\* author loop may fail.
FailingSubmission ==
    /\ req.op = "fault"
    /\ res = <<>>
    /\ BridgeDone(PersistFailing(Db, req.parsed, req.csl, req.fail_at), req.parsed)
    /\ UNCHANGED <<flags, req>>

\* The same record submitted again, with no failure.
Resubmission ==
    /\ req.op = "fault"
    /\ Len(res) = 1
    /\ BridgeDone(IF req.csl THEN PersistCsl(Db, req.parsed)
                  ELSE PersistCitation(Db, req.parsed), req.parsed)
    /\ UNCHANGED <<flags, req>>

NextFault ==
    \/ FailingSubmission
    \/ Resubmission

SpecFault == InitFault /\ [][NextFault]_vars

\* ------------------------------------------------------- the application

Idle == [op |-> "idle"]

SubmitRequests ==
    {[op |-> "submit", cit |-> c, entry_type |-> "publication", env |-> e] :
        c \in SubmitCits, e \in SubmitEnvs}
CslRequests == {[op |-> "csl", item |-> it] : it \in CslItems}
BulkRequests ==
    {[op |-> "bulk", citations |-> cs, entry_type |-> "publication", env |-> e] :
        cs \in SeqsUpTo({CitA, CitNothing, CitE}, MaxBatch), e \in {EnvSilent, EnvUntitled}}
CslFileRequests == {[op |-> "cslfile", data |-> d] : d \in CslPayloads}
EnrichRequests ==
    {[op |-> "enrich", id |-> r.id, script |-> sc] : r \in entries, sc \in EnrichScripts}
DeleteRequests == {[op |-> "delete", id |-> r.id] : r \in entries}
\* Author lines of the edit form: one author, two with a two-letter name
\* first, the owner and the same author twice.
EditedAuthorLists == {<<NameDoe>>, <<NameLi, NameDoe>>, <<NameOwner, NameDoe, NameDoe>>}
EditRequests ==
    {[op |-> "edit", id |-> r.id, authors |-> l] : r \in entries, l \in EditedAuthorLists}

\* The application opens a database file: some of the seed rows with their
\* authors and links, any combination of installed providers.
Init ==
    /\ entries \in SUBSET SeedRows
    /\ authors = IF entries = {} THEN {} ELSE SeedAuthors
    /\ entry_authors = SeedLinks(entries)
    /\ flags \in AllFlags
    /\ req = Idle
    /\ res = <<>>

\* The user starts an interaction.
Request ==
    /\ req = Idle
    /\ Cardinality(entries) <= MaxWorks
    /\ req' \in SubmitRequests \cup CslRequests \cup BulkRequests \cup CslFileRequests
                \cup EnrichRequests \cup DeleteRequests \cup EditRequests
    /\ res' = <<>>
    /\ UNCHANGED <<store, flags>>

\* create_entry_from_citation(db, req.cit, req.entry_type)
SubmitCitation ==
    /\ req.op = "submit"
    /\ Len(res) < MaxSubmits
    /\ BridgeDone(create_entry_from_citation(Db, flags, req.cit, req.entry_type, req.env),
                  parse_citation(flags, req.cit, req.entry_type, req.env).ret)
    /\ UNCHANGED <<flags, req>>

\* create_entry_from_csl_json(db, req.item)
ImportCslItem ==
    /\ req.op = "csl"
    /\ Len(res) < MaxSubmits
    /\ BridgeDone(create_entry_from_csl_json(Db, req.item), parse_csl_json_item(req.item))
    /\ UNCHANGED <<flags, req>>

\* The "Parse All & Preview" button: bulk_parsed_results is kept in the session.
BulkParse ==
    /\ req.op = "bulk"
    /\ res = <<>>
    /\ res' = <<ParseAll(flags, req.citations, req.entry_type, req.env, 1)>>
    /\ UNCHANGED <<store, flags, req>>

\* The store and the counters after a batch loop r.
BatchDone(r) ==
    /\ SetStore(r.db)
    /\ res' = Append(res, r.counts)

\* The "Add All to Database" button, shown when success_count > 0.
BulkAdd ==
    /\ req.op = "bulk"
    /\ Len(res) = 1
    /\ \E i \in 1..Len(res[1].parsed_results) : res[1].parsed_results[i].success
    /\ BatchDone(AddAll(Db, [flags |-> flags, env |-> req.env, entry_type |-> req.entry_type],
                        res[1].parsed_results, 1, NoCounts))
    /\ UNCHANGED <<flags, req>>

\* A CSL JSON file is uploaded: parse_csl_json gives parsed_items.
CslUpload ==
    /\ req.op = "cslfile"
    /\ res = <<>>
    /\ res' = <<[parsed_items |-> parse_csl_json(req.data)]>>
    /\ UNCHANGED <<store, flags, req>>

\* The "Import All Entries" button, shown when parsed_items is not empty.
CslImport ==
    /\ req.op = "cslfile"
    /\ Len(res) = 1
    /\ res[1].parsed_items # <<>>
    /\ BatchDone(ImportAll(Db, res[1].parsed_items, 1, NoCounts))
    /\ UNCHANGED <<flags, req>>

\* The store and the record of a refresh r of the stored row.
EnrichDone(r, row, metadata) ==
    /\ SetStore(r.db)
    /\ res' = <<[ret |-> r.ret, row |-> row, metadata |-> metadata]>>

\* The "Enrich" button of a stored work.
Enrich ==
    /\ req.op = "enrich"
    /\ res = <<>>
    /\ \E row \in entries :
          /\ row.id = req.id
          /\ EnrichDone(enrich_entry_from_crossref(Db, flags, EntryOfRow(row), req.script),
                        row,
                        lookup_doi_metadata(flags.habanero, row.doi, req.script).result)
    /\ UNCHANGED <<flags, req>>

\* The "Save Changes" button of the edit form of a stored work.
Edit ==
    /\ req.op = "edit"
    /\ res = <<>>
    /\ \E row \in entries :
          /\ row.id = req.id
          /\ LET r == save_edit(Db, EntryOfRow(row), req.authors)
             IN  /\ SetStore(r.db)
                 /\ res' = <<[ret |-> r.ret, before |-> Db]>>
    /\ UNCHANGED <<flags, req>>

\* The "Confirm Delete" button of a stored work.
Delete ==
    /\ req.op = "delete"
    /\ res = <<>>
    /\ LET r == delete_entry(Db, req.id)
       IN  /\ SetStore(r.db)
           /\ res' = <<[ret |-> r.ret, before |-> Db]>>
    /\ UNCHANGED <<flags, req>>

\* The interaction is over; the page is drawn again.
Done ==
    /\ req # Idle
    /\ res # <<>>
    /\ req' = Idle
    /\ res' = <<>>
    /\ UNCHANGED <<store, flags>>

Next ==
    \/ Request
    \/ SubmitCitation
    \/ ImportCslItem
    \/ BulkParse
    \/ BulkAdd
    \/ CslUpload
    \/ CslImport
    \/ Enrich
    \/ Edit
    \/ Delete
    \/ Done

Spec == Init /\ [][Next]_vars

\* ---------------------------------------------------------------- claims

\* A lookup has run with the registry client installed.
LookupDone == req.op = "lookup" /\ res # <<>> /\ flags.habanero

\* C7: when the first registry call fails with a redirect naming a different
\* identifier, the lookup makes exactly one more call, with the corrected
\* identifier, and a returned record carries the corrected identifier; when
\* it fails with a timeout, the lookup makes exactly one more call, with the
\* same identifier and twice the timeout; when the first call fails in any
\* other way, or the second call does not succeed either, the lookup returns
\* nothing.
C7_RedirectAndTimeoutRetry ==
    LookupDone =>
        LET out == res[1]
            first == req.script[1]
            second == req.script[2]
            clean == CleanLookupDoi(req.doi)
            redirected == first.kind = "redirect" /\ first.to # clean
        IN  /\ out.log[1] = [doi |-> clean, timeout |-> 30]
            /\ redirected =>
                  /\ Len(out.log) = 2
                  /\ out.log[2] = [doi |-> first.to, timeout |-> 30]
                  /\ (second.kind = "ok" <=> out.result # NoDict)
                  /\ out.result # NoDict => out.result.doi = first.to
            /\ first.kind = "timeout" =>
                  /\ Len(out.log) = 2
                  /\ out.log[2] = [doi |-> clean, timeout |-> 60]
                  /\ (second.kind = "ok" <=> out.result # NoDict)
            /\ (first.kind \in {"error", "redirect_bare", "empty"}
                  \/ (first.kind = "redirect" /\ ~redirected)) =>
                  /\ Len(out.log) = 1
                  /\ out.result = NoDict

\* C7 witness: the first call was redirected to another identifier, the
\* second call succeeded and the record carries the corrected identifier.
C7_Witness ==
    /\ LookupDone
    /\ req.doi = DoiAPrefixed
    /\ req.script[1] = RedirectTo(DoiB)
    /\ req.script[2] = Ok(MsgFull)
    /\ res[1].result # NoDict
    /\ res[1].result.doi = DoiB
    /\ res[1].result.title = TitleA

\* C8: a lookup makes at most two registry calls, so at most one retry, and
\* a registry that redirects or times out on every call ends the lookup with
\* an absent result; outcomes after the second are never consumed.
C8_AtMostTwoCalls ==
    (req.op = "lookup" /\ res # <<>>) =>
        /\ Len(res[1].log) <= 2
        /\ (\A k \in 1..ScriptLen : req.script[k].kind \in {"redirect", "timeout"})
              => res[1].result = NoDict
        /\ \A k \in 3..ScriptLen : \A o \in Outcomes :
              lookup_doi_metadata(flags.habanero, req.doi, [req.script EXCEPT ![k] = o])
                  = res[1]

\* C8 witness: a registry that times out on every call was asked twice and
\* the lookup returned nothing.
C8_Witness ==
    /\ LookupDone
    /\ \A k \in 1..ScriptLen : req.script[k] = Timeout
    /\ Len(res[1].log) = 2
    /\ res[1].result = NoDict

\* The last bridge call recorded, and the record it worked on as an Entry.
BridgeRan == req.op \in {"submit", "csl"} /\ res # <<>>
LastCall == res[Len(res)]

\* C1: the same citation (a title, a year, no identifier, not yet in the
\* store, providers answering alike) is submitted twice: the first call
\* returns a fresh id with is_new true, the second returns the same id with
\* is_new false, and the numbers of works and of author links of that work
\* are the same after both calls.
C1_ResubmissionIsIdempotent ==
    (/\ req.op = "submit"
     /\ Len(res) >= 2
     /\ res[1].parsed # NoDict
     /\ Truthy(res[1].parsed.title)
     /\ TruthyInt(res[1].parsed.year)
     /\ ~Truthy(res[1].parsed.doi)
     /\ res[1].known = NoneInt)
    => /\ res[1].exc = NoExc
       /\ res[1].ret[2]
       /\ TruthyInt(res[1].ret[1])
       /\ res[1].ret[1] \notin {r.id : r \in res[1].before.entries}
       /\ res[2].exc = NoExc
       /\ res[2].ret = <<res[1].ret[1], FALSE>>
       /\ res[2].works = res[1].works
       /\ res[2].links = res[1].links

\* C2: when the duplicate check finds a stored work for the record, the
\* bridge returns that id with is_new false and the three tables are what
\* they were before the call.
C2_DuplicateWritesNothing ==
    (BridgeRan /\ LastCall.known # NoneInt)
    => /\ LastCall.exc = NoExc
       /\ LastCall.ret = <<LastCall.known, FALSE>>
       /\ Db = LastCall.before

\* C2 witness: a citation whose title is stored already, and one of whose
\* authors is not, was submitted and resolved to the stored work.
C2_Witness ==
    /\ req.op = "submit"
    /\ req.cit = CitA
    /\ Len(res) = 1
    /\ res[1].known = 1
    /\ res[1].ret = <<1, FALSE>>
    /\ \E i \in 1..Len(res[1].parsed.authors) :
          \A a \in authors : a.name # res[1].parsed.authors[i]

\* The stored works that each of the three tests matches, titles compared
\* after trimming and lower-casing both sides.
SameIdentifier(rows, e) == {r \in rows : r.doi # None /\ r.doi = e.doi}
SameTitle(rows, e) ==
    {r \in rows : r.title # None /\ PyTitleKey(r.title) = PyTitleKey(e.title)}
SameTitleAndYear(rows, e) == {r \in SameTitle(rows, e) : r.year # NoneInt /\ r.year = e.year}
Ids(rows) == {r.id : r \in rows}

\* C3: the duplicate check returns an id matched by the first of the three
\* tests that matches any stored work (same identifier; same trimmed,
\* lower-cased title and same year; same trimmed, lower-cased title), and
\* no id only when none of them matches.
C3_FirstMatchingTestWins ==
    (BridgeRan /\ LastCall.parsed # NoDict)
    => LET e == EntryFromParsed(LastCall.parsed)
           rows == LastCall.before.entries
       IN  IF Truthy(e.doi) /\ SameIdentifier(rows, e) # {}
           THEN LastCall.known \in Ids(SameIdentifier(rows, e))
           ELSE IF Truthy(e.title) /\ TruthyInt(e.year) /\ SameTitleAndYear(rows, e) # {}
           THEN LastCall.known \in Ids(SameTitleAndYear(rows, e))
           ELSE IF Truthy(e.title) /\ SameTitle(rows, e) # {}
           THEN LastCall.known \in Ids(SameTitle(rows, e))
           ELSE LastCall.known = NoneInt

C6_RefreshOverwritesCountOnly ==
    (/\ req.op = "enrich"
     /\ res # <<>>
     /\ Truthy(res[1].row.doi)
     /\ res[1].metadata # NoDict)
    => \E now \in entries :
          /\ now.id = res[1].row.id
          /\ now.citation_count = res[1].metadata.citation_count
          /\ \A f \in {"abstract", "url", "keywords", "subject_area"} :
                now[f] = IF Truthy(res[1].row[f]) THEN res[1].row[f]
                         ELSE res[1].metadata[f]

\* The indices of the records that parsed, in input order.
Successes(parsed_results) ==
    LET sel == SelectSeq(parsed_results, LAMBDA x : x.success)
    IN  [k \in 1..Len(sel) |-> sel[k].idx]

ParseDone == req.op = "parse" /\ res # <<>>

\* Some path has a title to offer: GROBID, the registry record of the
\* identifier in the text, or the regex parser (whose title the search path
\* starts from).
SomePathHasTitle ==
    /\ req.cit.len_ok
    /\ \/ flags.grobid /\ Truthy(Get(req.env.grobid, "title"))
       \/ /\ flags.habanero
          /\ Truthy(req.cit.doi)
          /\ Truthy(Get(Crossref(flags, req.env, req.cit.doi), "title"))
       \/ Truthy(Get(req.cit.fb, "title"))

\* C4: parse_citation raises nothing, and it returns the absent result
\* exactly when no path produced a title.
C4_NeverRaisesAbsentIffNoTitle ==
    ParseDone => /\ res[1].exc = NoExc
                 /\ res[1].ret = NoDict <=> ~SomePathHasTitle

\* The providers' behaviour with provider p answering nothing on every call.
Silent(env, p) ==
    CASE p = "grobid" -> [env EXCEPT !.grobid = NoDict]
      [] p = "openalex" -> [env EXCEPT !.openalex = NoDict]
      [] p = "habanero" -> [env EXCEPT !.crossref = [d \in DOMAIN @ |-> Always(Empty)]]

\* C9: with a provider's flag false, parse_citation returns what it returns
\* with the flag true and that provider answering nothing on every call.
C9_UnavailableSameAsSilent ==
    ParseDone =>
        \A p \in {"grobid", "habanero", "openalex"} :
            ~flags[p] =>
                LET other == parse_citation([flags EXCEPT ![p] = TRUE], req.cit,
                                            req.default_type, Silent(req.env, p))
                IN  other.ret = res[1].ret /\ other.exc = res[1].exc

\* The 1-based positions of the owner in an author list.
OwnerPositions(list) == {i \in 1..Len(list) : is_anum_author(list[i])}

\* C11: when a bridge is handed a record that is not stored yet, it creates
\* the work, and the stored work's anum_position is the first position in
\* the record's author list at which is_anum_author holds, absent when
\* there is none.
C11_OwnerPositionStored ==
    (BridgeRan /\ LastCall.parsed # NoDict /\ LastCall.known = NoneInt)
    => /\ LastCall.exc = NoExc
       /\ LastCall.ret[2]
       /\ \E r \in entries :
             /\ r.id = LastCall.ret[1]
             /\ r.anum_position =
                   IF OwnerPositions(GetList(LastCall.parsed, "authors")) = {} THEN NoneInt
                   ELSE SetMin(OwnerPositions(GetList(LastCall.parsed, "authors")))

\* The positions of the authors whose family name the text marks with an
\* asterisk.
MarkedPositions(list, cit) == {i \in 1..Len(list) : BeforeComma(list[i]) \in cit.marked}

\* The positions a record names as first authors.
FirstAuthorSet(parsed) ==
    {GetList(parsed, "first_author_positions")[i] :
        i \in 1..Len(GetList(parsed, "first_author_positions"))}

\* C12: the first_author_positions of a record parse_citation returns are
\* the positions of the authors the text marks with an asterisk and no
\* other; position 1 alone when the record has authors and none is marked;
\* empty when it has no authors.
C12_FirstAuthorsAreTheMarked ==
    (ParseDone /\ res[1].ret # NoDict)
    => FirstAuthorSet(res[1].ret) =
          IF GetList(res[1].ret, "authors") = <<>> THEN {}
          ELSE IF MarkedPositions(GetList(res[1].ret, "authors"), req.cit) = {} THEN {1}
          ELSE MarkedPositions(GetList(res[1].ret, "authors"), req.cit)

\* The items of an uploaded payload: those of an array, the single object,
\* none for anything else; a string counts as the payload it encodes.
PayloadItems(d) ==
    LET data == IF d.kind = "str" THEN d.json ELSE d
    IN  IF data.kind = "list" THEN data.items
        ELSE IF data.kind = "dict" THEN <<data.item>>
        ELSE <<>>

\* The non-empty titles of a list of items, in order.
RECURSIVE TitlesOf(_)
TitlesOf(items) ==
    IF items = <<>> THEN <<>>
    ELSE (IF "title" \in DOMAIN Head(items) /\ Head(items)["title"] # <<>>
          THEN <<Head(items)["title"]>> ELSE <<>>) \o TitlesOf(Tail(items))

\* A CSL file was uploaded and parse_csl_json has returned.
CslParsed == req.op = "cslfile" /\ res # <<>>

ItemParsed == req.op = "cslitem" /\ res # <<>> /\ res[1] # NoDict

\* The category the type table of the CSL adapter gives a CSL type.
CategoryOfType(t) ==
    CASE t \in {"article", "article-journal", "book"} -> "publication"
      [] t \in {"paper-conference", "presentation"} -> "oral_presentation"
      [] t = "poster" -> "poster_abstract"
      [] t = "chapter" -> "book_chapter"
      [] t = "patent" -> "patent"
      [] OTHER -> "publication"

DoiPrefixes ==
    {"https://doi.org/", "http://doi.org/", "https://dx.doi.org/", "http://dx.doi.org/", "doi:"}
Canonical(doi) == \A i \in 1..Len(doi) : doi[i] \notin DoiPrefixes

\* C15: the identifier in a record of the CSL adapter, and every identifier
\* lookup_doi_metadata hands to the registry, carries none of the prefixes
\* http(s)://doi.org/, http(s)://dx.doi.org/ and doi:, and cleaning it once
\* more leaves it as it is.
C15_IdentifiersCanonical ==
    /\ ItemParsed =>
          /\ Canonical(res[1].doi)
          /\ res[1].doi # None => CslDoi("DOI" :> res[1].doi) = res[1].doi
    /\ LookupDone =>
          \A k \in 1..Len(res[1].log) :
              /\ Canonical(res[1].log[k].doi)
              /\ CleanLookupDoi(res[1].log[k].doi) = res[1].log[k].doi

\* The name functions have run on req.name.
NameDone == req.op = "name" /\ res # <<>>

\* C16: is_anum_author gives a name, its normalised form, the name in upper
\* case, in lower case, with asterisks appended and with its spaces widened
\* to runs of whitespace the same answer, and normalising a normalised name
\* changes nothing.
C16_OwnerDetectionInsensitive ==
    NameDone =>
        /\ res[1].is_anum = is_anum_author(res[1].normalized)
        /\ res[1].is_anum = is_anum_author(PyUpper(req.name))
        /\ res[1].is_anum = is_anum_author(PyLower(req.name))
        /\ res[1].is_anum = is_anum_author(req.name \o <<"*">>)
        /\ res[1].is_anum = is_anum_author(req.name \o <<"*", "*">>)
        /\ res[1].is_anum = is_anum_author(WidenSpaces(req.name, <<" ", "\t", " ">>))
        /\ normalize_author_name(res[1].normalized) = res[1].normalized

\* The owner's name in upper case, after a tab and a space, with its spaces
\* widened around an asterisk and two asterisks appended, was recognised, and
\* its normalised form differs from it.
C16_Witness ==
    /\ NameDone
    /\ req.name = <<"\t", " ">> \o WidenSpaces(PyUpper(NameOwner), <<" ", "*", " ">>)
                     \o <<"*", "*">>
    /\ res[1].is_anum
    /\ res[1].normalized = PyUpper(NameOwner)

\* C17: with no provider available, parse_citation reads the text "Smith,
\* J. A novel method. Journal of Testing 12, 345 (2021). doi:10.1/abc" as a
\* publication with the title "A novel method", the venue "Journal of
\* Testing", the year 2021, the identifier 10.1/abc and the one author
\* "Smith, J.".
C17_ScenarioSmith ==
    (ParseDone /\ req.cit = CitSmith /\ req.default_type = "publication"
        /\ ~flags.grobid /\ ~flags.habanero /\ ~flags.openalex)
    => /\ res[1].exc = NoExc
       /\ res[1].ret # NoDict
       /\ res[1].ret.type = "publication"
       /\ res[1].ret.title = TitleA
       /\ res[1].ret.venue = <<"Journal of Testing">>
       /\ res[1].ret.year = 2021
       /\ res[1].ret.doi = DoiC
       /\ res[1].ret.authors = <<<<"S", "m", "i", "t", "h", ",", " ", "J", ".">>>>

\* The entries of res in which a strategy returned or raised.
Finished == {k \in 1..Len(res) : res[k].out.done}

\* C18: parse_citation enters the four paths in the order 1, 2, 3, 4; it
\* enters a path only when no earlier path has returned; the path that
\* returns gives a record with a title, so that what is returned is the
\* record of the first path that has one; and parse_citation_fallback is
\* not called in a run in which path 1 or path 2 returns.
C18_PathsInStrictOrder ==
    req.op = "steps" =>
        /\ \A k \in 1..Len(res) :
              /\ res[k].strategy \in {0, k}
              /\ res[k].strategy = 0 => k = Len(res)
              /\ \A j \in 1..(k - 1) : ~res[j].out.done
        /\ \A k \in Finished :
              res[k].strategy # 0
              => /\ res[k].out.exc = NoExc
                 /\ res[k].out.path = k
                 /\ Truthy(Get(res[k].out.ret, "title"))
        /\ (\E j \in Finished : res[j].strategy \in {1, 2})
           => \A k \in 1..Len(res) : ~res[k].fallback

\* The enrichment fields, and whether a source has populated one.
TextEnrichment == {"abstract", "url", "keywords", "subject_area"}
Populated(d, f) ==
    IF f = "citation_count" THEN TruthyInt(GetInt(d, f)) ELSE Truthy(Get(d, f))
Kept(d, f, ret) ==
    Populated(d, f) => (IF f = "citation_count" THEN GetInt(ret, f) = GetInt(d, f)
                        ELSE Get(ret, f) = Get(d, f))

\* C19: no enrichment field that an earlier source populated is overwritten
\* by a later one.  On path 3 the record keeps every enrichment field the
\* search result populated, the registry filling only the others; on path 1
\* it keeps every enrichment field populated after the registry merge, the
\* search result filling only the others.
C19_EarlierSourceKept ==
    (ParseDone /\ res[1].ret # NoDict) =>
        \A f \in TextEnrichment \cup {"citation_count"} :
            /\ res[1].path = 3
               => Kept(lookup_openalex(flags, req.env, req.cit.fb.title,
                                       GetList(req.cit.fb, "authors")), f, res[1].ret)
            /\ res[1].path = 1
               => Kept(S1Crossref(flags, req.env, req.env.grobid,
                                  S1Doi(req.env.grobid, req.cit)), f, res[1].ret)

\* The identifier path 1 is to return: GROBID's own, else the one in the raw
\* text, else the one in the URL GROBID supplied; None when there is none.
PreferredIdentifier(grobid, cit) ==
    IF Truthy(Get(grobid, "doi")) THEN grobid.doi
    ELSE IF Truthy(cit.doi) THEN cit.doi
    ELSE IF Truthy(Get(grobid, "url")) THEN extract_doi_from_url(grobid.url)
    ELSE None

\* C20: when path 1 returns and GROBID, the raw text or GROBID's URL yields
\* an identifier, the returned record's identifier is GROBID's own if it has
\* one, else the one in the raw text, else the one in GROBID's URL, whether
\* or not the registry provider is available.
C20_Path1IdentifierPriority ==
    (ParseDone /\ res[1].path = 1 /\ res[1].exc = NoExc
        /\ Truthy(PreferredIdentifier(req.env.grobid, req.cit)))
    => res[1].ret.doi = PreferredIdentifier(req.env.grobid, req.cit)

\* ---------------------------------------------------------------- C21
TypeDone == req.op = "type" /\ res # <<>>
HasAny(words) == words \cap req.kw # {}
Opposite(t) == IF t = "oral_presentation" THEN "poster_abstract" ELSE "oral_presentation"
OppositeWords(t) ==
    IF t = "oral_presentation" THEN {"poster", "abstract"} ELSE {"oral", "presentation"}

\* The category outside the meeting branch: a default of oral_presentation
\* or poster_abstract kept unless a word of the opposite kind flips it,
\* then patent, book_chapter, the default.
OutsideMeetings(t) ==
    IF t \in {"oral_presentation", "poster_abstract"}
    THEN IF HasAny(OppositeWords(t)) THEN Opposite(t) ELSE t
    ELSE IF "patent" \in req.kw THEN "patent"
    ELSE IF "chapter" \in req.kw THEN "book_chapter"
    ELSE t
InMeetingBranch ==
    /\ req.default_type \notin {"oral_presentation", "poster_abstract"}
    /\ HasAny(MeetingWords)

\* C21 as stated: the category is the stated function of the words in the
\* text and of the default; in the meeting branch it is oral_presentation
\* unless a poster/abstract word is present, and then poster_abstract.
C21_CategoryAsStated ==
    TypeDone =>
        res[1] = IF InMeetingBranch
                 THEN IF HasAny({"poster", "abstract"}) THEN "poster_abstract"
                      ELSE "oral_presentation"
                 ELSE OutsideMeetings(req.default_type)

\* C21 amended: in the meeting branch the category is poster_abstract only
\* when a poster/abstract word is present and no oral/presentation word is;
\* everything else as stated.
C21_CategoryOralFirst ==
    TypeDone =>
        res[1] = IF InMeetingBranch
                 THEN IF HasAny({"poster", "abstract"}) /\ ~HasAny({"oral", "presentation"})
                      THEN "poster_abstract"
                      ELSE "oral_presentation"
                 ELSE OutsideMeetings(req.default_type)

\* A meeting text that names both kinds, under the default "publication".
C21_Witness ==
    /\ TypeDone
    /\ InMeetingBranch
    /\ HasAny({"poster", "abstract"}) /\ HasAny({"oral", "presentation"})
    /\ res[1] = "oral_presentation"

\* ---------------------------------------------------------------- C22
\* The category parse_citation gives the same text and default under the
\* availability flags f, None when it returns no record there.
CategoryUnder(f) ==
    LET other == parse_citation(f, req.cit, req.default_type, req.env)
    IN  IF other.exc = NoExc /\ other.ret # NoDict THEN other.ret.type ELSE "<none>"

\* C22: the category of the returned record depends on the text and the
\* default only: whichever providers are available, and so whichever path
\* produces the record, the same text and default give the same category.
C22_CategoryPathIndependent ==
    (ParseDone /\ res[1].exc = NoExc /\ res[1].ret # NoDict) =>
        \A f \in AllFlags :
            CategoryUnder(f) \in {"<none>", res[1].ret.type}

\* ---------------------------------------------------------------- C23
\* The first element of the item's date-parts under key k, <<>> when the
\* item has no such key, no date-parts there, or an empty one.
FirstDateParts(item, k) ==
    IF k \in DOMAIN item
    THEN IF "date-parts" \in DOMAIN item[k]
         THEN IF item[k]["date-parts"] # <<>> THEN item[k]["date-parts"][1] ELSE <<>>
         ELSE <<>>
    ELSE <<>>

\* C23: the year of the record is the first element of issued.date-parts
\* when the item has one, and otherwise its plain year field; it is absent
\* only when the item has neither.
C23_YearFromDatePartsElseYearField ==
    ItemParsed =>
        res[1].year =
            IF FirstDateParts(req.item, "issued") # <<>>
            THEN FirstDateParts(req.item, "issued")[1]
            ELSE IF "year" \in DOMAIN req.item THEN req.item["year"]
            ELSE NoneInt

\* ---------------------------------------------------------------- C24
\* C24: the presentation date of the record comes from
\* event-date.date-parts: "<MonthName> <year>" when a month from 1 to 12 is
\* there, the bare year when the month is missing or out of range, and
\* nothing when there is no date-parts to read.
C24_EventDateMonthYearElseYear ==
    ItemParsed =>
        LET parts == FirstDateParts(req.item, "event-date")
        IN  res[1].date =
                IF parts = <<>> THEN None
                ELSE IF Len(parts) >= 2 /\ parts[2] \in 1..12
                THEN <<month_names[parts[2]], " ", ToString(parts[1])>>
                ELSE <<ToString(parts[1])>>

\* ---------------------------------------------------------------- C25
\* Both sessions have passed the duplicate check and have left create_entry.
BothPassed ==
    /\ req.op = "race"
    /\ \A s \in Sessions : res[s].pc = "done" /\ res[s].passed

\* C25: check and create are not atomic: when the two submissions of the
\* same new citation both pass the duplicate check, two works are created
\* for it and both calls return is_new = true.
C25_BothPassAndTwoWorksCreated ==
    BothPassed =>
        /\ \A s \in Sessions : res[s].exc = NoExc /\ res[s].ret[2]
        /\ res["s1"].ret[1] # res["s2"].ret[1]
        /\ \A s \in Sessions :
              \E r \in entries : r.id = res[s].ret[1] /\ r.title = req.entry.title

\* ---------------------------------------------------------------- C27
\* A delete_entry has run and reported the work deleted.
Deleted == req.op = "delete" /\ res # <<>> /\ res[1].ret

\* C27: once delete_entry(id) has succeeded, the store holds no author link
\* of that work and still holds every author it held; and a work that a
\* bridge creates has no link in the store before the bridge writes its own.
C27_DeleteCascadesToLinks ==
    /\ Deleted =>
          /\ \A l \in entry_authors : l.entry_id # req.id
          /\ authors = res[1].before.authors
    /\ (req.op \in {"submit", "csl"}) =>
          \A k \in 1..Len(res) :
              (res[k].exc = NoExc /\ res[k].ret[2]) =>
                  \A l \in res[k].before.entry_authors : l.entry_id # res[k].ret[1]

\* ---------------------------------------------------------------- C26
\* The links of one work have pairwise different authors and positions.
LinksWellFormed(links) ==
    \A l1, l2 \in links :
        (l1.entry_id = l2.entry_id /\ l1 # l2) =>
            l1.author_id # l2.author_id /\ l1.position # l2.position

C28_AuthorNamesDistinctAndKept ==
    (req.op = "authors") =>
        /\ \A a1, a2 \in authors : (a1.name = a2.name \/ a1.id = a2.id) => a1 = a2
        /\ \A k \in 1..Len(res) :
              /\ res[k].before.authors \subseteq res[k].after.authors
              /\ (res[k].call = "delete_entry") => res[k].after.authors = res[k].before.authors
              /\ (res[k].call = "create_author") =>
                    LET known == {a \in res[k].before.authors : a.name = res[k].name}
                    IN  IF known # {}
                        THEN /\ res[k].after.authors = res[k].before.authors
                             /\ \E a \in known : a.id = res[k].ret
                        ELSE res[k].after.authors \ res[k].before.authors =
                                 {[id |-> res[k].ret, name |-> res[k].name,
                                   is_anum |-> res[k].is_anum]}

\* An author was created as the owner, a work was deleted, and a second
\* call under the same name and another owner flag got the same author.
C28_Witness ==
    /\ req.op = "authors"
    /\ Len(res) = 3
    /\ res[1].call = "create_author" /\ res[1].name = NameOwner /\ res[1].is_anum
    /\ res[2].call = "delete_entry"
    /\ res[3].call = "create_author" /\ res[3].name = NameOwner /\ ~res[3].is_anum
    /\ res[3].ret = res[1].ret
    /\ \E a \in authors : a.name = NameOwner /\ a.is_anum

\* ---------------------------------------------------------------- C29
\* The first submission was of a record the store did not know, and the
\* database call for its author at position fail_at was to fail.
LinkingFailed ==
    /\ req.op = "fault"
    /\ res # <<>>
    /\ res[1].known = NoneInt
    /\ req.fail_at \in 1..Len(GetList(req.parsed, "authors"))
    /\ Len(GetList(req.parsed, "authors")[req.fail_at]) >= 3

\* The positions of the authors the loop links before position fail_at.
LinkedBefore(list, fail_at) == {i \in 1..(fail_at - 1) : Len(list[i]) >= 3}

\* C29: create_entry has committed the work before any link is written and
\* nothing rolls it back: when linking fails partway the work is stored
\* with exactly the links written until then, and a resubmission of the
\* record returns that work with is_new = false and adds no link.
C29_WorkKeptWithPartialLinks ==
    LinkingFailed =>
        \E w \in entries :
            /\ w.id \notin {r.id : r \in res[1].before.entries}
            /\ w.title = req.parsed.title
            /\ {l.position : l \in {x \in entry_authors : x.entry_id = w.id}}
                   = LinkedBefore(GetList(req.parsed, "authors"), req.fail_at)
            /\ res[1].exc # NoExc
            /\ (Len(res) = 2) => /\ res[2].exc = NoExc
                                  /\ res[2].ret = <<w.id, FALSE>>

\* ---------------------------------------------------------------- C30
\* A refresh of a stored work has run.
EnrichRan == req.op = "enrich" /\ res # <<>>
KeptByRefresh ==
    {"type", "doi", "abstract_number", "date", "location", "status", "anum_position"}

\* C30: a refresh leaves the work's type, identifier, abstract_number,
\* date, location, status and owner position as they were; and when the
\* work has no identifier, the registry client is not installed or the
\* lookup returns nothing, it reports failure and the stored row is the row
\* it was.
C30_RefreshFrame ==
    EnrichRan =>
        \E now \in entries :
            /\ now.id = res[1].row.id
            /\ \A f \in KeptByRefresh : now[f] = res[1].row[f]
            /\ (\/ ~Truthy(res[1].row.doi)
                \/ ~flags.habanero
                \/ res[1].metadata = NoDict)
               => ~res[1].ret /\ now = res[1].row

\* A work with an identifier was refreshed with the registry client
\* installed and a record found.
C30_Witness ==
    /\ EnrichRan
    /\ Truthy(res[1].row.doi)
    /\ flags.habanero
    /\ res[1].metadata # NoDict
    /\ TruthyInt(res[1].metadata.citation_count)

====
